---- MODULE Spec2Model ----
(***************************************************************************)
(* State-machine model of the LLMS.txt catalog extension:                  *)
(*   WebsitesProvider  (src/src/providers/websitesProvider.ts)             *)
(*   SearchService     (src/src/services/searchService.ts)                 *)
(*   fetchWebsites     (src/src/services/websiteService.ts)                *)
(*   FavoritesProvider (src/src/providers/favoritesProvider.ts)            *)
(* The extension host is single-threaded: an async function runs until an  *)
(* await and resumes later, so every action below is the code between two  *)
(* suspension points.                                                      *)
(* Specifications: Spec (the provider's refreshes and cache), SpecService  *)
(* (the search service's public methods), SpecHistory (the search          *)
(* history), SpecFavorites (the favorites provider), SpecOrganize (the     *)
(* organizer on given fields), SpecView (activation, filter changes and    *)
(* expand/collapse events), SpecFetch (the field mapping of fetchWebsites).*)
(***************************************************************************)
EXTENDS Integers, Sequences, FiniteSets, TLC

(***************************************************************************)
(* Optional values (JavaScript undefined / a value).                       *)
(***************************************************************************)
None == <<>>
Some(x) == <<x>>
IsSome(o) == o # <<>>
Get(o) == o[1]

(***************************************************************************)
(* Bounds of the model.                                                    *)
(***************************************************************************)
\* refresh() calls issued in one session
MaxRefresh == 2
\* milliseconds the clock advances while refreshes are in flight
MaxTick == 2
\* Date.now() when the session starts
Now0 == 100000000

\* websitesProvider.ts:28
CACHE_DURATION == 24 * 60 * 60 * 1000

(***************************************************************************)
(* Catalog entries (types: Website) and the lists the remote source serves.*)
(***************************************************************************)
W1 == [name |-> "OpenAI", domain |-> "openai.com", category |-> "ai-ml"]
W2 == [name |-> "Vercel", domain |-> "vercel.com", category |-> "infrastructure-cloud"]
W3 == [name |-> "Acme", domain |-> "acme.dev", category |-> ""]

W4 == [name |-> "OpenAPI", domain |-> "openapi.org", category |-> "developer-tools"]
W5 == [name |-> "OpenAI", domain |-> "openai.org", category |-> "developer-tools"]
W6 == [name |-> "Open", domain |-> "open.dev", category |-> "ai-ml"]
W7 == [name |-> "OpenCV", domain |-> "opencv.org", category |-> "ai-ml"]
W8 == [name |-> "Opera", domain |-> "opera.com", category |-> ""]

ListA == <<W1, W2>>
ListB == <<W3, W2, W1>>
\* a list in which a query matches more than five entries and two entries
\* of different categories share a name
ListC == <<W5, W1, W3, W4, W6, W7, W8>>

\* what axios.get may deliver (after the field mapping of fetchWebsites)
Catalogs == {<<>>, ListA, ListB}

\* entry lists a snapshot of an earlier session may hold
StoredLists == {ListA, ListB}

(***************************************************************************)
(* The persisted snapshot, globalState[CACHE_KEY]: absent, or an object    *)
(* whose timestamp and websites fields may each be missing.                *)
(***************************************************************************)
Snapshot(ts, ws) == Some([timestamp |-> Some(ts), websites |-> Some(ws)])

WellFormed(c) == IsSome(c) /\ IsSome(Get(c).timestamp) /\ IsSome(Get(c).websites)

\* ages (now - timestamp) of the snapshot found at start-up
Ages == {CACHE_DURATION - 1, CACHE_DURATION, CACHE_DURATION + 1}

InitialCaches ==
    {None}
    \cup {Snapshot(Now0 - a, l) : a \in Ages, l \in StoredLists}
    \cup {Some([timestamp |-> None, websites |-> Some(ListA)])}
    \cup {Some([timestamp |-> Some(Now0 - 1), websites |-> None])}

(***************************************************************************)
(* Category organisation (organizeWebsitesByCategory).                     *)
(***************************************************************************)
categoryConfig(slug) ==
    CASE slug = "ai-ml" ->
           [displayName |-> "AI & Machine Learning", icon |-> "brain"]
      [] slug = "developer-tools" ->
           [displayName |-> "Developer Tools", icon |-> "code"]
      [] slug = "data-analytics" ->
           [displayName |-> "Data & Analytics", icon |-> "database"]
      [] slug = "infrastructure-cloud" ->
           [displayName |-> "Infrastructure & Cloud", icon |-> "server"]
      [] slug = "security-identity" ->
           [displayName |-> "Security & Identity", icon |-> "lock"]
      [] slug = "integration-automation" ->
           [displayName |-> "Integration & Automation", icon |-> "sync"]
      [] slug = "uncategorized" ->
           [displayName |-> "Uncategorized", icon |-> "folder"]
      [] OTHER ->
           [displayName |-> slug, icon |-> "folder"]

\* website.category || 'uncategorized'
NormalizedCategory(w) == IF w.category = "" THEN "uncategorized" ELSE w.category

NoResultsItem == [kind |-> "no-results", label |-> "No results found",
                  websites |-> <<>>, icon |-> "info", isExpanded |-> FALSE]

CategoryItem(category, ws, icon, isExpanded) ==
    [kind |-> "category", label |-> category, websites |-> ws,
     icon |-> icon, isExpanded |-> isExpanded]

\* Map.get(key) ?? false on a Map<string, boolean>
StateOf(states, key) == IF key \in DOMAIN states THEN states[key] ELSE FALSE

\* index of slug in the insertion-ordered Map cats (0: not a key)
RECURSIVE SlugIndex(_, _, _)
SlugIndex(cats, slug, i) ==
    IF i > Len(cats) THEN 0
    ELSE IF cats[i].slug = slug THEN i
    ELSE SlugIndex(cats, slug, i + 1)

\* a loop whose groups hold only the entry scanned last
RECURSIVE GroupIntoLast(_, _, _)
GroupIntoLast(cats, toShow, i) ==
    IF i > Len(toShow) THEN cats
    ELSE LET slug == NormalizedCategory(toShow[i])
             k == SlugIndex(cats, slug, 1)
             next == IF k = 0
                     THEN Append(cats, [slug |-> slug, websites |-> <<toShow[i]>>])
                     ELSE [cats EXCEPT ![k].websites = <<toShow[i]>>]
         IN GroupIntoLast(next, toShow, i + 1)

\* the loop of lines 248-259: this.categories after scanning toShow[i..]
RECURSIVE GroupInto(_, _, _)
GroupInto(cats, toShow, i) ==
    IF i > Len(toShow) THEN cats
    ELSE LET slug == NormalizedCategory(toShow[i])
             k == SlugIndex(cats, slug, 1)
             next == IF k = 0
                     THEN Append(cats, [slug |-> slug, websites |-> <<toShow[i]>>])
                     ELSE [cats EXCEPT ![k].websites = Append(@, toShow[i])]
         IN GroupInto(next, toShow, i + 1)

\* root items listed from the newest Map entry to the oldest
RootItemsReversed(cats, states) ==
    [k \in 1..Len(cats) |->
        CategoryItem(categoryConfig(cats[Len(cats) + 1 - k].slug).displayName,
                     cats[Len(cats) + 1 - k].websites,
                     categoryConfig(cats[Len(cats) + 1 - k].slug).icon,
                     StateOf(states, cats[Len(cats) + 1 - k].slug))]

\* lines 262-280: one CategoryItem per Map entry, in insertion order
RootItemsOf(cats, states) ==
    [k \in 1..Len(cats) |->
        CategoryItem(categoryConfig(cats[k].slug).displayName,
                     cats[k].websites,
                     categoryConfig(cats[k].slug).icon,
                     StateOf(states, cats[k].slug))]

\* a parent map that files every domain under the first root item
ParentMapOfFirstItem(items) ==
    LET places == UNION {{<<k, j>> : j \in 1..Len(items[k].websites)} :
                            k \in 1..Len(items)}
        domainAt(p) == items[p[1]].websites[p[2]].domain
    IN [d \in {domainAt(p) : p \in places} |-> items[1]]

\* lines 285-293: a later set() of the same domain replaces the earlier one
ParentMapOf(items) ==
    LET places == UNION {{<<k, j>> : j \in 1..Len(items[k].websites)} :
                            k \in 1..Len(items)}
        domainAt(p) == items[p[1]].websites[p[2]].domain
        last(d) == CHOOSE p \in places :
                     /\ domainAt(p) = d
                     /\ \A q \in places :
                          domainAt(q) = d
                            => (q[1] < p[1] \/ (q[1] = p[1] /\ q[2] <= p[2]))
    IN [d \in {domainAt(p) : p \in places} |-> items[last(d)[1]]]

EmptyMap == [x \in {} |-> FALSE]

(***************************************************************************)
(* SearchService.                                                          *)
(***************************************************************************)
MAX_HISTORY_ITEMS == 10

(***************************************************************************)
(* Text the user types (queries, partial input) and the text it is         *)
(* compared with are sequences of one-character strings, so that trim,     *)
(* length, toLowerCase and includes are computed.                          *)
(***************************************************************************)
EmptyString == <<>>

\* String.prototype.trim
RECURSIVE TrimStart(_)
TrimStart(q) ==
    IF q # <<>> /\ Head(q) = " " THEN TrimStart(Tail(q)) ELSE q

RECURSIVE TrimEnd(_)
TrimEnd(q) ==
    IF q # <<>> /\ q[Len(q)] = " " THEN TrimEnd(SubSeq(q, 1, Len(q) - 1)) ELSE q

Trim(q) == TrimEnd(TrimStart(q))

\* String.prototype.toLowerCase, on the letters the model uses
LowerChar(c) ==
    CASE c = "A" -> "a"
      [] c = "C" -> "c"
      [] c = "I" -> "i"
      [] c = "O" -> "o"
      [] c = "P" -> "p"
      [] c = "Q" -> "q"
      [] c = "V" -> "v"
      [] OTHER -> c

toLowerCase(q) == [i \in 1..Len(q) |-> LowerChar(q[i])]

\* String.prototype.includes
includes(text, part) ==
    \E i \in 0..(Len(text) - Len(part)) :
        SubSeq(text, i + 1, i + Len(part)) = part

\* the characters of an entry's name
Chars(name) ==
    CASE name = "OpenAI" -> <<"O", "p", "e", "n", "A", "I">>
      [] name = "Vercel" -> <<"V", "e", "r", "c", "e", "l">>
      [] name = "Acme" -> <<"A", "c", "m", "e">>
      [] name = "OpenAPI" -> <<"O", "p", "e", "n", "A", "P", "I">>
      [] name = "Open" -> <<"O", "p", "e", "n">>
      [] name = "OpenCV" -> <<"O", "p", "e", "n", "C", "V">>
      [] name = "Opera" -> <<"O", "p", "e", "r", "a">>

\* if (category) / !category on an optional string
Truthy(category) == IsSome(category) /\ Get(category) # ""

\* fuse.search(query): the indexed entries the library matches, best first.
\* The library is external; its answers on the entries above are tabulated.
FuseRanking(query) ==
    CASE query = <<"o", "p", "e", "n", "a", "i">> ->
           <<"openai.com", "openai.org", "openapi.org">>
      [] query = <<"o", "p">> ->
           <<"open.dev", "opera.com", "openai.com", "openai.org",
             "opencv.org", "openapi.org">>
      [] query = <<"O", "p", "e", "n">> ->
           <<"open.dev", "openai.org", "openai.com", "opencv.org",
             "openapi.org">>
      [] query = <<"a", "c">> -> <<"acme.dev", "vercel.com">>
      [] OTHER -> <<>>

RECURSIVE FuseSearch(_, _, _)
FuseSearch(index, ranking, i) ==
    IF i > Len(ranking) THEN <<>>
    ELSE SelectSeq(index, LAMBDA w : w.domain = ranking[i])
           \o FuseSearch(index, ranking, i + 1)

\* a history cut after eleven entries
addToHistoryKeepingEleven(history, query, category, t) ==
    LET trimmedQuery == Trim(query) IN
    IF trimmedQuery = EmptyString THEN history
    ELSE LET kept == SelectSeq(history, LAMBDA e :
                        e.query # trimmedQuery \/ e.category # category)
             added == <<[query |-> trimmedQuery, category |-> category,
                         timestamp |-> t]>> \o kept
         IN SubSeq(added, 1, IF Len(added) < MAX_HISTORY_ITEMS + 1
                             THEN Len(added) ELSE MAX_HISTORY_ITEMS + 1)

\* a history that keeps the earlier entry of a pair issued again
addToHistoryKeepingDuplicates(history, query, category, t) ==
    LET trimmedQuery == Trim(query) IN
    IF trimmedQuery = EmptyString THEN history
    ELSE LET added == <<[query |-> trimmedQuery, category |-> category,
                         timestamp |-> t]>> \o history
         IN SubSeq(added, 1, IF Len(added) < MAX_HISTORY_ITEMS
                             THEN Len(added) ELSE MAX_HISTORY_ITEMS)

\* searchService.ts:132-150
addToHistory(history, query, category, t) ==
    LET trimmedQuery == Trim(query) IN
    IF trimmedQuery = EmptyString THEN history
    ELSE LET kept == SelectSeq(history, LAMBDA e :
                        e.query # trimmedQuery \/ e.category # category)
             added == <<[query |-> trimmedQuery, category |-> category,
                         timestamp |-> t]>> \o kept
         IN SubSeq(added, 1, IF Len(added) < MAX_HISTORY_ITEMS
                             THEN Len(added) ELSE MAX_HISTORY_ITEMS)

\* a search that records every query as typed, empty and blank ones too
searchRecordingAll(index, dataset, history, query, category, t) ==
    LET h == <<[query |-> query, category |-> category, timestamp |-> t]>>
               \o history
        found == IF query # EmptyString
                 THEN FuseSearch(Get(index), FuseRanking(query), 1)
                 ELSE dataset
        results == IF Truthy(category)
                   THEN SelectSeq(found, LAMBDA w :
                            NormalizedCategory(w) = Get(category))
                   ELSE found
    IN IF query = EmptyString /\ ~Truthy(category)
       THEN [results |-> dataset, history |-> h, threw |-> FALSE]
       ELSE IF query # EmptyString /\ ~IsSome(index)
       THEN [results |-> <<>>, history |-> h, threw |-> TRUE]
       ELSE [results |-> results, history |-> h, threw |-> FALSE]

\* a search that compares the raw category field with the argument
searchRawCategory(index, dataset, history, query, category, t) ==
    LET h == IF Trim(query) # EmptyString
             THEN addToHistory(history, query, category, t)
             ELSE history
        found == IF query # EmptyString
                 THEN FuseSearch(Get(index), FuseRanking(query), 1)
                 ELSE dataset
        results == IF Truthy(category)
                   THEN SelectSeq(found, LAMBDA w : w.category = Get(category))
                   ELSE found
    IN IF query = EmptyString /\ ~Truthy(category)
       THEN [results |-> dataset, history |-> h, threw |-> FALSE]
       ELSE IF query # EmptyString /\ ~IsSome(index)
       THEN [results |-> <<>>, history |-> h, threw |-> TRUE]
       ELSE [results |-> results, history |-> h, threw |-> FALSE]

\* searchService.ts:65-89; category is an optional string.
\* threw: this.fuse is still undefined when fuse.search is called.
search(index, dataset, history, query, category, t) ==
    LET h == IF Trim(query) # EmptyString
             THEN addToHistory(history, query, category, t)
             ELSE history
        found == IF query # EmptyString
                 THEN FuseSearch(Get(index), FuseRanking(query), 1)
                 ELSE dataset
        results == IF Truthy(category)
                   THEN SelectSeq(found, LAMBDA w :
                            NormalizedCategory(w) = Get(category))
                   ELSE found
    IN IF query = EmptyString /\ ~Truthy(category)
       THEN [results |-> dataset, history |-> h, threw |-> FALSE]
       ELSE IF query # EmptyString /\ ~IsSome(index)
       THEN [results |-> <<>>, history |-> h, threw |-> TRUE]
       ELSE [results |-> results, history |-> h, threw |-> FALSE]

\* recent searches that ignore the category asked for
getRecentSearchesOfAll(history, category) ==
    [i \in 1..Len(history) |-> history[i].query]

\* searchService.ts:155-160
getRecentSearches(history, category) ==
    LET kept == SelectSeq(history, LAMBDA entry :
                    ~Truthy(category) \/ entry.category = category)
    IN [i \in 1..Len(kept) |-> kept[i].query]

\* [...new Set(list)]: the first occurrence of every element, in order
RECURSIVE AddNew(_, _)
AddNew(set, list) ==
    IF list = <<>> THEN set
    ELSE AddNew(IF \E i \in 1..Len(set) : set[i] = Head(list)
                THEN set ELSE Append(set, Head(list)),
                Tail(list))

Unique(list) == AddNew(<<>>, list)

\* fuse.search(partial, { limit: 5 })
Limit(list, n) == SubSeq(list, 1, IF Len(list) < n THEN Len(list) ELSE n)

\* this.allWebsites.find(w => w.name === name)
FindByName(dataset, name) ==
    LET at == {i \in 1..Len(dataset) : dataset[i].name = name}
    IN IF at = {} THEN None
       ELSE Some(dataset[CHOOSE i \in at : \A j \in at : i <= j])

\* suggestions built from every fuzzy match, not the best five
getSuggestionsUnlimited(index, dataset, history, partial, category) ==
    IF partial = EmptyString \/ Len(partial) < 2
    THEN [results |-> getRecentSearches(history, category), threw |-> FALSE]
    ELSE IF ~IsSome(index)
    THEN [results |-> <<>>, threw |-> TRUE]
    ELSE
    LET results == FuseSearch(Get(index), FuseRanking(partial), 1)
        names == [i \in 1..Len(results) |-> results[i].name]
        filtered == IF Truthy(category)
                    THEN SelectSeq(names, LAMBDA name :
                           LET website == FindByName(dataset, name) IN
                           /\ IsSome(website)
                           /\ NormalizedCategory(Get(website)) = Get(category))
                    ELSE names
        suggestions == [i \in 1..Len(filtered) |-> Chars(filtered[i])]
        recentSearches == SelectSeq(getRecentSearches(history, category),
                             LAMBDA s : includes(toLowerCase(s),
                                                 toLowerCase(partial)))
    IN [results |-> Unique(suggestions \o recentSearches), threw |-> FALSE]

\* searchService.ts:97-120
getSuggestions(index, dataset, history, partial, category) ==
    IF partial = EmptyString \/ Len(partial) < 2
    THEN [results |-> getRecentSearches(history, category), threw |-> FALSE]
    ELSE IF ~IsSome(index)
    THEN [results |-> <<>>, threw |-> TRUE]
    ELSE
    LET results == Limit(FuseSearch(Get(index), FuseRanking(partial), 1), 5)
        names == [i \in 1..Len(results) |-> results[i].name]
        filtered == IF Truthy(category)
                    THEN SelectSeq(names, LAMBDA name :
                           LET website == FindByName(dataset, name) IN
                           /\ IsSome(website)
                           /\ NormalizedCategory(Get(website)) = Get(category))
                    ELSE names
        suggestions == [i \in 1..Len(filtered) |-> Chars(filtered[i])]
        recentSearches == SelectSeq(getRecentSearches(history, category),
                             LAMBDA s : includes(toLowerCase(s),
                                                 toLowerCase(partial)))
    IN [results |-> Unique(suggestions \o recentSearches), threw |-> FALSE]

(***************************************************************************)
(* State.                                                                  *)
(***************************************************************************)
VARIABLES
    now,                 \* Date.now()
    phase,               \* "inactive" | "constructed" | "crashed"
    cache,               \* globalState[CACHE_KEY]
    savedCategoryStates, \* globalState[CATEGORY_STATES_KEY]
    websites,            \* WebsitesProvider.websites
    categories,          \* WebsitesProvider.categories (insertion-ordered Map)
    rootItems,           \* WebsitesProvider.rootItems
    childToParentMap,    \* WebsitesProvider.childToParentMap
    categoryStates,      \* WebsitesProvider.categoryStates
    currentSearchQuery,  \* WebsitesProvider.currentSearchQuery
    currentCategory,     \* WebsitesProvider.currentCategory (optional)
    fuse,                \* SearchService.fuse: the indexed list, once built
    allWebsites,         \* SearchService.allWebsites
    searchHistory,       \* SearchService.searchHistory
    importQueue,         \* initializeFuse calls waiting on import('fuse.js')
    calls,               \* the refresh() calls of the session, in start order
    requests,            \* axios.get requests issued
    treeDataChanged,     \* _onDidChangeTreeData.fire calls
    errorMessages,       \* vscode.window.showErrorMessage calls
    organizeCalls,       \* organizeWebsitesByCategory calls made on their own
    responseData,        \* response.data of the axios.get in fetchWebsites
    issued,              \* the search() calls made so far, oldest first
    lastCall,            \* the latest search()/getSuggestions() call
    favorites,           \* FavoritesProvider.favorites
    savedFavorites,      \* globalState[FAVORITES_KEY]
    favoriteCalls,       \* the addFavorite/removeFavorite calls, in start order
    favoritesChanged,    \* FavoritesProvider._onDidChangeTreeData.fire calls
    informationMessages  \* vscode.window.showInformationMessage calls

\* the calls made on the search service, and the favorites provider
queryVars == <<issued, lastCall>>
favoritesVars == <<favorites, savedFavorites, favoriteCalls, favoritesChanged,
                   informationMessages>>

\* no search()/getSuggestions() call has been made
NoCall == [op |-> "none", threw |-> FALSE]

vars == <<now, phase, cache, savedCategoryStates, websites, categories,
          rootItems, childToParentMap, categoryStates, currentSearchQuery,
          currentCategory, fuse, allWebsites, searchHistory, importQueue,
          calls, requests, treeDataChanged, errorMessages, organizeCalls,
          responseData, queryVars, favoritesVars>>

\* an organizer that leaves the root list empty when nothing is shown
organizeWithoutPlaceholder(ws) ==
    LET s == search(fuse, allWebsites, searchHistory, currentSearchQuery,
                    currentCategory, now)
        websitesToShow == IF currentSearchQuery # EmptyString THEN s.results ELSE ws
        history == IF currentSearchQuery # EmptyString THEN s.history ELSE searchHistory
        cats == GroupInto(<<>>, websitesToShow, 1)
        items == RootItemsOf(cats, categoryStates)
    IN IF currentSearchQuery # EmptyString /\ s.threw
       THEN [threw |-> TRUE, categories |-> <<>>, rootItems |-> rootItems,
             childToParentMap |-> EmptyMap, searchHistory |-> history]
       ELSE [threw |-> FALSE, categories |-> cats, rootItems |-> items,
             childToParentMap |-> ParentMapOf(items),
             searchHistory |-> history]

(***************************************************************************)
(* organizeWebsitesByCategory (websitesProvider.ts:192-295), called with   *)
(* the current this.websites; its result is the new categories, rootItems, *)
(* childToParentMap and the search history search() leaves behind.         *)
(***************************************************************************)
organizeWebsitesByCategory(ws) ==
    LET s == search(fuse, allWebsites, searchHistory, currentSearchQuery,
                    currentCategory, now)
        websitesToShow == IF currentSearchQuery # EmptyString THEN s.results ELSE ws
        history == IF currentSearchQuery # EmptyString THEN s.history ELSE searchHistory
        cats == GroupInto(<<>>, websitesToShow, 1)
        items == RootItemsOf(cats, categoryStates)
    IN IF currentSearchQuery # EmptyString /\ s.threw
       THEN [threw |-> TRUE, categories |-> <<>>, rootItems |-> rootItems,
             childToParentMap |-> EmptyMap, searchHistory |-> history]
       ELSE IF Len(websitesToShow) = 0
       THEN [threw |-> FALSE, categories |-> <<>>,
             rootItems |-> <<NoResultsItem>>,
             childToParentMap |-> EmptyMap, searchHistory |-> history]
       ELSE [threw |-> FALSE, categories |-> cats, rootItems |-> items,
             childToParentMap |-> ParentMapOf(items),
             searchHistory |-> history]

\* the provider fields organizeWebsitesByCategory assigns
Organized(ws) ==
    LET o == organizeWebsitesByCategory(ws) IN
    /\ categories' = o.categories
    /\ rootItems' = o.rootItems
    /\ childToParentMap' = o.childToParentMap
    /\ searchHistory' = o.searchHistory

(***************************************************************************)
(* new WebsitesProvider(context) (websitesProvider.ts:34-61).              *)
(***************************************************************************)
\* a duration of 24 hours written in seconds
IsExpiredInSeconds(t, timestamp) ==
    IF IsSome(timestamp) THEN t - Get(timestamp) > 24 * 60 * 60 ELSE FALSE

\* the comparison made inclusive
IsExpiredInclusive(t, timestamp) ==
    IF IsSome(timestamp) THEN t - Get(timestamp) >= CACHE_DURATION ELSE FALSE

\* now - cache.timestamp > CACHE_DURATION; a missing timestamp makes the
\* difference NaN, and NaN > n is false
IsExpired(t, timestamp) ==
    IF IsSome(timestamp) THEN t - Get(timestamp) > CACHE_DURATION ELSE FALSE

\* the snapshot is used: it is there and not expired
CacheUsed == IsSome(cache) /\ ~IsExpired(now, Get(cache).timestamp)

\* a constructor that evicts the snapshot it finds expired
ConstructEvicting ==
    /\ phase = "inactive"
    /\ importQueue' = <<[call |-> 0, websites |-> <<>>]>>
    /\ categoryStates' = EmptyMap
    /\ savedCategoryStates' = EmptyMap
    /\ IF CacheUsed /\ ~IsSome(Get(cache).websites)
       THEN /\ phase' = "crashed"
            /\ UNCHANGED <<cache, websites, categories, rootItems,
                           childToParentMap, searchHistory>>
       ELSE IF CacheUsed
       THEN /\ phase' = "constructed"
            /\ websites' = Get(Get(cache).websites)
            /\ Organized(Get(Get(cache).websites))
            /\ UNCHANGED cache
       ELSE /\ phase' = "constructed"
            /\ cache' = None
            /\ UNCHANGED <<websites, categories, rootItems, childToParentMap,
                           searchHistory>>
    /\ UNCHANGED <<organizeCalls, responseData, queryVars, favoritesVars>>
    /\ UNCHANGED <<now, currentSearchQuery, currentCategory, fuse,
                   allWebsites, calls, requests, treeDataChanged,
                   errorMessages>>


Construct ==
    /\ phase = "inactive"
    \* new SearchService([]): initializeFuse([]) waits for its import
    /\ importQueue' = <<[call |-> 0, websites |-> <<>>]>>
    /\ categoryStates' = EmptyMap
    /\ savedCategoryStates' = EmptyMap
    /\ IF CacheUsed /\ ~IsSome(Get(cache).websites)
       THEN \* this.websites = undefined; websitesToShow.length throws
            /\ phase' = "crashed"
            /\ UNCHANGED <<websites, categories, rootItems, childToParentMap,
                           searchHistory>>
       ELSE IF CacheUsed
       THEN /\ phase' = "constructed"
            /\ websites' = Get(Get(cache).websites)
            /\ Organized(Get(Get(cache).websites))
       ELSE /\ phase' = "constructed"
            /\ UNCHANGED <<websites, categories, rootItems, childToParentMap,
                           searchHistory>>
    /\ UNCHANGED <<organizeCalls, responseData, queryVars, favoritesVars>>
    /\ UNCHANGED <<now, cache, currentSearchQuery, currentCategory, fuse,
                   allWebsites, calls, requests, treeDataChanged,
                   errorMessages>>

(***************************************************************************)
(* refresh() (websitesProvider.ts:123-168), one action per stretch of code *)
(* between two awaits.                                                     *)
(***************************************************************************)
InFlight(c) == c.pc \in {"fetching", "indexing", "persisting", "persistFailing"}

Finished(c) == c.pc \in {"resolved", "rejected"}

\* lines 124-126: the call runs up to await fetchWebsites(), which has issued
\* its axios.get
Refresh ==
    /\ phase = "constructed"
    /\ Len(calls) < MaxRefresh
    /\ LET busy == \E i \in 1..Len(calls) : InFlight(calls[i])
           marked == [i \in 1..Len(calls) |->
                        IF InFlight(calls[i])
                        THEN [calls[i] EXCEPT !.overlapped = TRUE]
                        ELSE calls[i]]
       IN calls' = Append(marked,
                     [pc |-> "fetching", allWebsites |-> None, ts |-> None,
                      err |-> "none", overlapped |-> busy, arrived |-> 0])
    /\ requests' = requests + 1
    /\ UNCHANGED <<organizeCalls, responseData, queryVars, favoritesVars>>
    /\ UNCHANGED <<now, phase, cache, savedCategoryStates, websites,
                   categories, rootItems, childToParentMap, categoryStates,
                   currentSearchQuery, currentCategory, fuse, allWebsites,
                   searchHistory, importQueue, treeDataChanged,
                   errorMessages>>

\* a fetch that announces the new list as soon as it has arrived
FetchOkNotifying(r, list) ==
    /\ calls[r].pc = "fetching"
    /\ websites' = list
    /\ importQueue' = Append(importQueue, [call |-> r, websites |-> list])
    /\ treeDataChanged' = treeDataChanged + 1
    /\ calls' = [calls EXCEPT ![r].pc = "indexing",
                              ![r].allWebsites = Some(list),
                              ![r].arrived =
                                 1 + Cardinality({i \in 1..Len(calls) :
                                                    calls[i].arrived > 0})]
    /\ UNCHANGED <<organizeCalls, responseData, queryVars, favoritesVars>>
    /\ UNCHANGED <<now, phase, cache, savedCategoryStates, categories,
                   rootItems, childToParentMap, categoryStates,
                   currentSearchQuery, currentCategory, fuse, allWebsites,
                   searchHistory, requests, errorMessages>>

\* lines 126-130: the fetch delivers list; this.websites is replaced and
\* updateDataset(allWebsites) suspends in initializeFuse's import
FetchOk(r, list) ==
    /\ calls[r].pc = "fetching"
    /\ websites' = list
    /\ importQueue' = Append(importQueue, [call |-> r, websites |-> list])
    /\ calls' = [calls EXCEPT ![r].pc = "indexing",
                              ![r].allWebsites = Some(list),
                              ![r].arrived =
                                 1 + Cardinality({i \in 1..Len(calls) :
                                                    calls[i].arrived > 0})]
    /\ UNCHANGED <<organizeCalls, responseData, queryVars, favoritesVars>>
    /\ UNCHANGED <<now, phase, cache, savedCategoryStates, categories,
                   rootItems, childToParentMap, categoryStates,
                   currentSearchQuery, currentCategory, fuse, allWebsites,
                   searchHistory, requests, treeDataChanged, errorMessages>>

\* a failure path that also drops the list in memory
FetchFailClearing(r) ==
    /\ calls[r].pc = "fetching"
    /\ errorMessages' = errorMessages + 1
    /\ websites' = <<>>
    /\ calls' = [calls EXCEPT ![r].pc = "rejected", ![r].err = "fetch"]
    /\ UNCHANGED <<organizeCalls, responseData, queryVars, favoritesVars>>
    /\ UNCHANGED <<now, phase, cache, savedCategoryStates, categories,
                   rootItems, childToParentMap, categoryStates,
                   currentSearchQuery, currentCategory, fuse, allWebsites,
                   searchHistory, importQueue, requests, treeDataChanged>>

\* websiteService.ts:28-31 and websitesProvider.ts:159-167: the fetch fails,
\* fetchWebsites throws, refresh reports the error and rethrows it
FetchFail(r) ==
    /\ calls[r].pc = "fetching"
    /\ errorMessages' = errorMessages + 1
    /\ calls' = [calls EXCEPT ![r].pc = "rejected", ![r].err = "fetch"]
    /\ UNCHANGED <<organizeCalls, responseData, queryVars, favoritesVars>>
    /\ UNCHANGED <<now, phase, cache, savedCategoryStates, websites,
                   categories, rootItems, childToParentMap, categoryStates,
                   currentSearchQuery, currentCategory, fuse, allWebsites,
                   searchHistory, importQueue, requests, treeDataChanged>>

\* an index rebuild that keeps the old allWebsites
InitializeFuseKeepingDataset(h) ==
    /\ fuse' = Some(h.websites)
    /\ allWebsites' = allWebsites
    /\ importQueue' = Tail(importQueue)

\* searchService.ts:45-50: the oldest waiting initializeFuse gets its module
\* and builds the index.  All calls await the import of the same module, and
\* promise reactions run in the order they were registered: first in, first
\* out.
InitializeFuse(h) ==
    /\ fuse' = Some(h.websites)
    /\ allWebsites' = h.websites
    /\ importQueue' = Tail(importQueue)

\* the initializeFuse([]) of the SearchService constructor completes
ConstructorIndexReady ==
    /\ importQueue # <<>>
    /\ Head(importQueue).call = 0
    /\ InitializeFuse(Head(importQueue))
    /\ UNCHANGED <<organizeCalls, responseData, queryVars, favoritesVars>>
    /\ UNCHANGED <<now, phase, cache, savedCategoryStates, websites,
                   categories, rootItems, childToParentMap, categoryStates,
                   currentSearchQuery, currentCategory, searchHistory, calls,
                   requests, treeDataChanged, errorMessages>>

\* a write that stores this.websites instead of the list this call fetched
UpdateCacheFromField(r) ==
    /\ importQueue # <<>>
    /\ Head(importQueue).call = r
    /\ calls[r].pc = "indexing"
    /\ InitializeFuse(Head(importQueue))
    /\ cache' = Snapshot(now, websites)
    /\ calls' = [calls EXCEPT ![r].pc = "persisting", ![r].ts = Some(now)]
    /\ UNCHANGED <<organizeCalls, responseData, queryVars, favoritesVars>>
    /\ UNCHANGED <<now, phase, savedCategoryStates, websites, categories,
                   rootItems, childToParentMap, categoryStates,
                   currentSearchQuery, currentCategory, searchHistory,
                   requests, treeDataChanged, errorMessages>>

\* a write that is skipped while the stored snapshot is still fresh
UpdateCacheIfStale(r) ==
    /\ importQueue # <<>>
    /\ Head(importQueue).call = r
    /\ calls[r].pc = "indexing"
    /\ InitializeFuse(Head(importQueue))
    /\ cache' = IF WellFormed(cache) /\ ~IsExpired(now, Get(cache).timestamp)
                THEN cache
                ELSE Snapshot(now, Get(calls[r].allWebsites))
    /\ calls' = [calls EXCEPT ![r].pc = "persisting", ![r].ts = Some(now)]
    /\ UNCHANGED <<organizeCalls, responseData, queryVars, favoritesVars>>
    /\ UNCHANGED <<now, phase, savedCategoryStates, websites, categories,
                   rootItems, childToParentMap, categoryStates,
                   currentSearchQuery, currentCategory, searchHistory,
                   requests, treeDataChanged, errorMessages>>

\* lines 130-136: updateDataset of call r completes and refresh goes on to
\* globalState.update(CACHE_KEY, {timestamp: Date.now(), websites}), which
\* stores the value and suspends.  Between the end of initializeFuse and the
\* update call only promise jobs run, no I/O completion, so it is one step.
UpdateCache(r) ==
    /\ importQueue # <<>>
    /\ Head(importQueue).call = r
    /\ calls[r].pc = "indexing"
    /\ InitializeFuse(Head(importQueue))
    /\ cache' = Snapshot(now, Get(calls[r].allWebsites))
    /\ calls' = [calls EXCEPT ![r].pc = "persisting", ![r].ts = Some(now)]
    /\ UNCHANGED <<organizeCalls, responseData, queryVars, favoritesVars>>
    /\ UNCHANGED <<now, phase, savedCategoryStates, websites, categories,
                   rootItems, childToParentMap, categoryStates,
                   currentSearchQuery, currentCategory, searchHistory,
                   requests, treeDataChanged, errorMessages>>

\* the same, but the storage refuses the write: nothing is stored and the
\* promise of globalState.update will reject
UpdateCacheFails(r) ==
    /\ importQueue # <<>>
    /\ Head(importQueue).call = r
    /\ calls[r].pc = "indexing"
    /\ InitializeFuse(Head(importQueue))
    /\ calls' = [calls EXCEPT ![r].pc = "persistFailing"]
    /\ UNCHANGED <<organizeCalls, responseData, queryVars, favoritesVars>>
    /\ UNCHANGED <<now, phase, cache, savedCategoryStates, websites,
                   categories, rootItems, childToParentMap, categoryStates,
                   currentSearchQuery, currentCategory, searchHistory,
                   requests, treeDataChanged, errorMessages>>

\* lines 137-144: the write is acknowledged; the groups are rebuilt from
\* this.websites and the tree-changed event fires
CacheUpdated(r) ==
    /\ calls[r].pc = "persisting"
    /\ Organized(websites)
    /\ treeDataChanged' = treeDataChanged + 1
    /\ calls' = [calls EXCEPT ![r].pc = "resolved"]
    /\ UNCHANGED <<organizeCalls, responseData, queryVars, favoritesVars>>
    /\ UNCHANGED <<now, phase, cache, savedCategoryStates, websites,
                   categoryStates, currentSearchQuery, currentCategory, fuse,
                   allWebsites, importQueue, requests, errorMessages>>

\* lines 159-167: the write is rejected; refresh reports the error and
\* rethrows it
CacheUpdateRejected(r) ==
    /\ calls[r].pc = "persistFailing"
    /\ errorMessages' = errorMessages + 1
    /\ calls' = [calls EXCEPT ![r].pc = "rejected", ![r].err = "persist"]
    /\ UNCHANGED <<organizeCalls, responseData, queryVars, favoritesVars>>
    /\ UNCHANGED <<now, phase, cache, savedCategoryStates, websites,
                   categories, rootItems, childToParentMap, categoryStates,
                   currentSearchQuery, currentCategory, fuse, allWebsites,
                   searchHistory, importQueue, requests, treeDataChanged>>

\* a millisecond passes while a refresh waits
Tick ==
    /\ now < Now0 + MaxTick
    /\ \E i \in 1..Len(calls) : InFlight(calls[i])
    /\ now' = now + 1
    /\ UNCHANGED <<organizeCalls, responseData, queryVars, favoritesVars>>
    /\ UNCHANGED <<phase, cache, savedCategoryStates, websites, categories,
                   rootItems, childToParentMap, categoryStates,
                   currentSearchQuery, currentCategory, fuse, allWebsites,
                   searchHistory, importQueue, calls, requests,
                   treeDataChanged, errorMessages>>

(***************************************************************************)
(* The specification: a session starts with whatever an earlier session    *)
(* left in the storage, constructs the provider and issues refreshes.      *)
(***************************************************************************)
Init ==
    /\ now = Now0
    /\ phase = "inactive"
    /\ cache \in InitialCaches
    /\ savedCategoryStates = EmptyMap
    /\ websites = <<>>
    /\ categories = <<>>
    /\ rootItems = <<>>
    /\ childToParentMap = EmptyMap
    /\ categoryStates = EmptyMap
    /\ currentSearchQuery = EmptyString
    /\ currentCategory = None
    /\ fuse = None
    /\ allWebsites = <<>>
    /\ searchHistory = <<>>
    /\ importQueue = <<>>
    /\ calls = <<>>
    /\ requests = 0
    /\ treeDataChanged = 0
    /\ errorMessages = 0
    /\ organizeCalls = 0
    /\ responseData = None
    /\ issued = <<>>
    /\ lastCall = NoCall
    /\ favorites = <<>>
    /\ savedFavorites = <<>>
    /\ favoriteCalls = <<>>
    /\ favoritesChanged = 0
    /\ informationMessages = 0

Next ==
    \/ Construct
    \/ Refresh
    \/ \E r \in 1..Len(calls) : \E list \in Catalogs : FetchOk(r, list)
    \/ \E r \in 1..Len(calls) : FetchFail(r)
    \/ ConstructorIndexReady
    \/ \E r \in 1..Len(calls) : UpdateCache(r)
    \/ \E r \in 1..Len(calls) : UpdateCacheFails(r)
    \/ \E r \in 1..Len(calls) : CacheUpdated(r)
    \/ \E r \in 1..Len(calls) : CacheUpdateRejected(r)
    \/ Tick

Spec == Init /\ [][Next]_vars

(***************************************************************************)
(* The search service on its own: new SearchService() followed by calls of *)
(* its public methods updateDataset, search and getSuggestions             *)
(* (searchService.ts:39-120).                                              *)
(***************************************************************************)
\* initializeFuse calls that may wait on the import at the same time
MaxPending == 1

\* history entries the service-level searches may build up
MaxEntries == 2

\* lists handed to updateDataset
Datasets == {ListA, ListC}

\* text typed into search(): empty, blank, with hits
SearchQueries ==
    {EmptyString, <<" ">>, <<"o", "p">>, <<"O", "p", "e", "n">>}

\* text typed into getSuggestions(): short, no hit, with hits
Partials ==
    {<<"o">>, <<"z", "z">>, <<"o", "p">>, <<"O", "p", "e", "n">>}

\* the category argument of getSuggestions(), and of search()
Categories == {None, Some("ai-ml"), Some("uncategorized")}
SearchCategories == {None, Some("uncategorized")}

\* the provider around the service plays no part
ProviderIdle ==
    /\ phase = "inactive"
    /\ cache = None
    /\ savedCategoryStates = EmptyMap
    /\ websites = <<>>
    /\ categories = <<>>
    /\ rootItems = <<>>
    /\ childToParentMap = EmptyMap
    /\ categoryStates = EmptyMap
    /\ currentSearchQuery = EmptyString
    /\ currentCategory = None
    /\ calls = <<>>
    /\ requests = 0
    /\ treeDataChanged = 0
    /\ errorMessages = 0
    /\ organizeCalls = 0
    /\ responseData = None

FavoritesIdle ==
    /\ favorites = <<>>
    /\ savedFavorites = <<>>
    /\ favoriteCalls = <<>>
    /\ favoritesChanged = 0
    /\ informationMessages = 0

providerVars == <<phase, cache, savedCategoryStates, websites, categories,
                  rootItems, childToParentMap, categoryStates,
                  currentSearchQuery, currentCategory, calls, requests,
                  treeDataChanged, errorMessages, organizeCalls,
                  responseData>>

\* searchService.ts:32-43: the fields as declared, and the constructor's
\* initializeFuse([]) waiting for its import
InitService ==
    /\ now = Now0
    /\ ProviderIdle
    /\ FavoritesIdle
    /\ fuse = None
    /\ allWebsites = <<>>
    /\ searchHistory = <<>>
    /\ importQueue = <<[call |-> 0, websites |-> <<>>]>>
    /\ issued = <<>>
    /\ lastCall = NoCall

\* searchService.ts:55-57: updateDataset(list) suspends in initializeFuse
UpdateDataset(list) ==
    /\ Len(importQueue) < MaxPending
    /\ importQueue' = Append(importQueue, [call |-> 0, websites |-> list])
    /\ UNCHANGED <<now, fuse, allWebsites, searchHistory, queryVars,
                   providerVars, favoritesVars>>

\* searchService.ts:45-50: the oldest waiting initializeFuse completes
IndexBuilt ==
    /\ importQueue # <<>>
    /\ InitializeFuse(Head(importQueue))
    /\ UNCHANGED <<now, searchHistory, queryVars, providerVars,
                   favoritesVars>>

\* what a call of search() or getSuggestions() leaves in lastCall
\* (entries: the Website[] of search; suggestions: the string[] of
\* getSuggestions)
\* index, dataset: this.fuse and this.allWebsites as the call found them
CallOf(op, text, category, r) ==
    [op |-> op, query |-> text, category |-> category,
     index |-> fuse, dataset |-> allWebsites,
     entries |-> IF op = "search" THEN r.results ELSE <<>>,
     suggestions |-> IF op = "search" THEN <<>> ELSE r.results,
     threw |-> r.threw]

\* searchService.ts:65-89: search(query, category)
Search(query, category) ==
    LET r == search(fuse, allWebsites, searchHistory, query, category, now) IN
    /\ Len(r.history) <= MaxEntries
    /\ searchHistory' = r.history
    /\ lastCall' = CallOf("search", query, category, r)
    /\ UNCHANGED <<now, fuse, allWebsites, importQueue, issued,
                   providerVars, favoritesVars>>

\* the same call, entered in the log of searches issued
LoggedSearch(query, category) ==
    LET r == search(fuse, allWebsites, searchHistory, query, category, now) IN
    /\ searchHistory' = r.history
    /\ lastCall' = CallOf("search", query, category, r)
    /\ issued' = Append(issued, [query |-> query, category |-> category])
    /\ UNCHANGED <<now, fuse, allWebsites, importQueue, providerVars,
                   favoritesVars>>

\* searchService.ts:97-120: getSuggestions(partial, category)
GetSuggestions(partial, category) ==
    LET r == getSuggestions(fuse, allWebsites, searchHistory, partial,
                            category) IN
    /\ lastCall' = CallOf("getSuggestions", partial, category, r)
    /\ UNCHANGED <<now, fuse, allWebsites, searchHistory, importQueue,
                   issued, providerVars, favoritesVars>>

NextService ==
    \/ \E list \in Datasets : UpdateDataset(list)
    \/ IndexBuilt
    \/ \E q \in SearchQueries : \E c \in SearchCategories : Search(q, c)
    \/ \E p \in Partials : \E c \in Categories : GetSuggestions(p, c)

SpecService == InitService /\ [][NextService]_vars

(***************************************************************************)
(* The search history: a run of searches with queries never used before,   *)
(* a few searches that repeat or vary an earlier one, and getSuggestions   *)
(* calls that read the history back (searchService.ts:65-69, 97-101,       *)
(* 132-160).                                                               *)
(***************************************************************************)
\* queries never used before that a session issues
MaxFresh == 11

\* searches that repeat or vary an earlier one
MaxAgain == 1

Letters == <<"a", "b", "c", "d", "e", "f", "g", "h", "i", "j", "k", "l", "m">>

\* the k-th new query
Fresh(k) == <<"q", Letters[k]>>

Query(text, category) == [query |-> text, category |-> category]

\* a search with nothing to record, and searches that repeat the first new
\* query: padded with blanks, and under a category
Repeats ==
    {Query(<<" ", " ">>, Some("ai-ml")),
     Query(<<" ">> \o Fresh(1) \o <<" ">>, None),
     Query(Fresh(1), Some("ai-ml"))}

\* partial input too short for fuzzy matching
ShortPartials == {EmptyString, <<"q">>}

HistoryCategories == {None, Some("ai-ml")}

\* how many of the new queries have been issued
FreshIssued ==
    Cardinality({k \in 1..MaxFresh :
                   \E i \in 1..Len(issued) : issued[i] = Query(Fresh(k), None)})

SearchFresh ==
    /\ FreshIssued < MaxFresh
    /\ LoggedSearch(Fresh(FreshIssued + 1), None)

SearchAgain(q) ==
    /\ Len(issued) - FreshIssued < MaxAgain
    /\ LoggedSearch(q.query, q.category)

NextHistory ==
    \/ SearchFresh
    \/ \E q \in Repeats : SearchAgain(q)
    \/ \E p \in ShortPartials : \E c \in HistoryCategories :
          GetSuggestions(p, c)

\* the service once the constructor's initializeFuse([]) has completed
InitHistory ==
    /\ now = Now0
    /\ ProviderIdle
    /\ FavoritesIdle
    /\ fuse = Some(<<>>)
    /\ allWebsites = <<>>
    /\ searchHistory = <<>>
    /\ importQueue = <<>>
    /\ issued = <<>>
    /\ lastCall = NoCall

SpecHistory == InitHistory /\ [][NextHistory]_vars

(***************************************************************************)
(* The favorites provider (favoritesProvider.ts): new FavoritesProvider    *)
(* followed by addFavorite and removeFavorite calls, each of which may     *)
(* start while earlier ones are suspended in saveFavorites.                *)
(***************************************************************************)
\* addFavorite/removeFavorite calls of a session
MaxFavoriteCalls == 3

\* an entry with the domain of W1 under another name
W9 == [name |-> "OpenAI API", domain |-> "openai.com", category |-> "developer-tools"]

\* the entries the commands are invoked on
FavoriteArgs == {W1, W2, W9}

\* favorite lists an earlier session may have saved
StoredFavorites == {<<>>, <<W1>>, <<W2, W1>>}

\* a membership test that compares whole entries
isFavoriteSameEntry(list, website) ==
    \E i \in 1..Len(list) : list[i] = website

\* a membership test that goes by the name
isFavoriteByName(list, website) ==
    \E i \in 1..Len(list) : list[i].name = website.name

\* favoritesProvider.ts:30 and 48-50:
\* this.favorites.some(fav => fav.domain === website.domain)
isFavorite(list, website) ==
    \E i \in 1..Len(list) : list[i].domain = website.domain

\* favoritesProvider.ts:39: findIndex(fav => fav.domain === website.domain),
\* with 0 for the -1 of "not found"
findIndex(list, website) ==
    LET at == {i \in 1..Len(list) : list[i].domain = website.domain}
    IN IF at = {} THEN 0 ELSE CHOOSE i \in at : \A j \in at : i <= j

\* favoritesProvider.ts:41: this.favorites.splice(index, 1)
splice(list, index) ==
    SubSeq(list, 1, index - 1) \o SubSeq(list, index + 1, Len(list))

\* the search service plays no part
ServiceIdle ==
    /\ fuse = None
    /\ allWebsites = <<>>
    /\ searchHistory = <<>>
    /\ importQueue = <<>>
    /\ issued = <<>>
    /\ lastCall = NoCall

serviceVars == <<fuse, allWebsites, searchHistory, importQueue>>

\* favoritesProvider.ts:15-23: the constructor loads what is stored
InitFavorites ==
    /\ now = Now0
    /\ ProviderIdle
    /\ ServiceIdle
    /\ savedFavorites \in StoredFavorites
    /\ favorites = savedFavorites
    /\ favoriteCalls = <<>>
    /\ favoritesChanged = 0
    /\ informationMessages = 0

\* a call record: changed tells whether the call altered this.favorites,
\* fired counts its _onDidChangeTreeData.fire calls
FavoriteCall(op, website, pc, changed) ==
    [op |-> op, website |-> website, pc |-> pc, changed |-> changed,
     fired |-> 0]

\* favoritesProvider.ts:25-27: globalState.update(FAVORITES_KEY, list) is
\* called; the storage takes the list, or refuses it and will reject
SaveFavorites(list, accepted) ==
    savedFavorites' = IF accepted THEN list ELSE savedFavorites

\* favoritesProvider.ts:29-32: addFavorite(website) up to its await
AddFavorite(website, accepted) ==
    /\ Len(favoriteCalls) < MaxFavoriteCalls
    /\ IF ~isFavorite(favorites, website)
       THEN /\ favorites' = Append(favorites, website)
            /\ SaveFavorites(Append(favorites, website), accepted)
            /\ favoriteCalls' = Append(favoriteCalls,
                  FavoriteCall("add", website,
                     IF accepted THEN "saving" ELSE "saveFailing", TRUE))
       ELSE /\ favoriteCalls' = Append(favoriteCalls,
                  FavoriteCall("add", website, "resolved", FALSE))
            /\ UNCHANGED <<favorites, savedFavorites>>
    /\ UNCHANGED <<now, providerVars, serviceVars, queryVars,
                   favoritesChanged, informationMessages>>

\* favoritesProvider.ts:38-42: removeFavorite(website) up to its await
RemoveFavorite(website, accepted) ==
    /\ Len(favoriteCalls) < MaxFavoriteCalls
    /\ LET index == findIndex(favorites, website) IN
       IF index # 0
       THEN /\ favorites' = splice(favorites, index)
            /\ SaveFavorites(splice(favorites, index), accepted)
            /\ favoriteCalls' = Append(favoriteCalls,
                  FavoriteCall("remove", website,
                     IF accepted THEN "saving" ELSE "saveFailing", TRUE))
       ELSE /\ favoriteCalls' = Append(favoriteCalls,
                  FavoriteCall("remove", website, "resolved", FALSE))
            /\ UNCHANGED <<favorites, savedFavorites>>
    /\ UNCHANGED <<now, providerVars, serviceVars, queryVars,
                   favoritesChanged, informationMessages>>

\* favoritesProvider.ts:33-34 and 43-44: the save of call i is acknowledged;
\* the change event fires and the message is shown
FavoritesSaved(i) ==
    /\ favoriteCalls[i].pc = "saving"
    /\ favoritesChanged' = favoritesChanged + 1
    /\ informationMessages' = informationMessages + 1
    /\ favoriteCalls' = [favoriteCalls EXCEPT ![i].pc = "resolved",
                                              ![i].fired = 1]
    /\ UNCHANGED <<now, providerVars, serviceVars, queryVars, favorites,
                   savedFavorites>>

\* a rejected save after which the change event fires all the same
FavoritesSaveRejectedNotifying(i) ==
    /\ favoriteCalls[i].pc = "saveFailing"
    /\ favoritesChanged' = favoritesChanged + 1
    /\ favoriteCalls' = [favoriteCalls EXCEPT ![i].pc = "rejected",
                                              ![i].fired = 1]
    /\ UNCHANGED <<now, providerVars, serviceVars, queryVars, favorites,
                   savedFavorites, informationMessages>>

\* the save of call i is rejected: the await throws and the call rejects
FavoritesSaveRejected(i) ==
    /\ favoriteCalls[i].pc = "saveFailing"
    /\ favoriteCalls' = [favoriteCalls EXCEPT ![i].pc = "rejected"]
    /\ UNCHANGED <<now, providerVars, serviceVars, queryVars, favorites,
                   savedFavorites, favoritesChanged, informationMessages>>

NextFavorites ==
    \/ \E w \in FavoriteArgs : \E accepted \in BOOLEAN : AddFavorite(w, accepted)
    \/ \E w \in FavoriteArgs : \E accepted \in BOOLEAN :
          RemoveFavorite(w, accepted)
    \/ \E i \in 1..Len(favoriteCalls) : FavoritesSaved(i)
    \/ \E i \in 1..Len(favoriteCalls) : FavoritesSaveRejected(i)

SpecFavorites == InitFavorites /\ [][NextFavorites]_vars


(***************************************************************************)
(* The organizer as a function of what it is given: this.websites, the     *)
(* search index built on them, the query, and the expand/collapse states.  *)
(***************************************************************************)
\* longest entry list given to the organizer
MaxShown == 3
\* consecutive organizeWebsitesByCategory calls on the same fields
MaxOrganize == 2

\* an entry whose category slug is not in the taxonomy
W10 == [name |-> "Rover", domain |-> "rover.bot", category |-> "robotics"]

\* two entries of one category, one without category, one of an unknown slug
OrganizePool == {W1, W6, W8, W10}

RECURSIVE ListsUpTo(_, _)
ListsUpTo(pool, n) ==
    IF n = 0 THEN {<<>>}
    ELSE LET shorter == ListsUpTo(pool, n - 1)
         IN shorter \cup {Append(l, w) : l \in shorter, w \in pool}

OrganizeQueries == {EmptyString, <<"o", "p">>}
OrganizeStates == {EmptyMap, [x \in {"ai-ml"} |-> TRUE]}

InitOrganize ==
    /\ now = Now0
    /\ phase = "inactive"
    /\ cache = None
    /\ savedCategoryStates = EmptyMap
    /\ websites \in ListsUpTo(OrganizePool, MaxShown)
    /\ categories = <<>>
    /\ rootItems = <<>>
    /\ childToParentMap = EmptyMap
    /\ categoryStates \in OrganizeStates
    /\ currentSearchQuery \in OrganizeQueries
    /\ currentCategory = None
    /\ calls = <<>>
    /\ requests = 0
    /\ treeDataChanged = 0
    /\ errorMessages = 0
    /\ organizeCalls = 0
    /\ responseData = None
    /\ FavoritesIdle
    /\ fuse = Some(websites)
    /\ allWebsites = websites
    /\ searchHistory = <<>>
    /\ importQueue = <<>>
    /\ issued = <<>>
    /\ lastCall = NoCall

\* websitesProvider.ts:192-295, one call; the index is built, so the
\* search inside does not throw
Organize ==
    /\ organizeCalls < MaxOrganize
    /\ organizeCalls' = organizeCalls + 1
    /\ Organized(websites)
    /\ UNCHANGED <<now, phase, cache, savedCategoryStates, websites,
                   categoryStates, currentSearchQuery, currentCategory,
                   calls, requests, treeDataChanged, errorMessages,
                   responseData, fuse, allWebsites, importQueue, queryVars,
                   favoritesVars>>

NextOrganize == Organize

SpecOrganize == InitOrganize /\ [][NextOrganize]_vars


(***************************************************************************)
(* A session of the extension: activate() (extension.ts:10-58), then the   *)
(* provider methods the registered commands call and the expand/collapse   *)
(* events of the tree view.  phase is "activating" once activate() has     *)
(* returned, "ready" once the .then branch of the initial refresh has      *)
(* created the tree views and registered the commands, "failed" once its   *)
(* .catch branch has run, "crashed" when the constructor threw.            *)
(***************************************************************************)
\* provider method calls (each starts a refresh) made in a session
MaxViewCalls == 2

\* what an earlier session left under CACHE_KEY: nothing, a fresh snapshot,
\* a fresh value without websites
ViewCaches == {None, Snapshot(Now0 - 1, ListA),
               Some([timestamp |-> Some(Now0 - 1), websites |-> None])}

\* what an earlier session left under CATEGORY_STATES_KEY
ViewSavedStates == {EmptyMap, [x \in {"robotics"} |-> TRUE]}

\* what the remote source serves in this session
ViewCatalogs == {<<W10, W1>>}

\* text typed into the search box
ViewQueries == {<<"O", "p">>}

InitView ==
    /\ now = Now0
    /\ phase = "inactive"
    /\ cache \in ViewCaches
    /\ savedCategoryStates \in ViewSavedStates
    /\ websites = <<>>
    /\ categories = <<>>
    /\ rootItems = <<>>
    /\ childToParentMap = EmptyMap
    /\ categoryStates = EmptyMap
    /\ currentSearchQuery = EmptyString
    /\ currentCategory = None
    /\ calls = <<>>
    /\ requests = 0
    /\ treeDataChanged = 0
    /\ errorMessages = 0
    /\ organizeCalls = 0
    /\ responseData = None
    /\ FavoritesIdle
    /\ fuse = None
    /\ allWebsites = <<>>
    /\ searchHistory = <<>>
    /\ importQueue = <<>>
    /\ issued = <<>>
    /\ lastCall = NoCall

\* websitesProvider.ts:124-126: a refresh() call runs up to its
\* await fetchWebsites()
StartRefresh ==
    /\ LET busy == \E i \in 1..Len(calls) : InFlight(calls[i])
           marked == [i \in 1..Len(calls) |->
                        IF InFlight(calls[i])
                        THEN [calls[i] EXCEPT !.overlapped = TRUE]
                        ELSE calls[i]]
       IN calls' = Append(marked,
                     [pc |-> "fetching", allWebsites |-> None, ts |-> None,
                      err |-> "none", overlapped |-> busy, arrived |-> 0])
    /\ requests' = requests + 1

\* extension.ts:10-26: new WebsitesProvider(context) (websitesProvider.ts:
\* 34-61), new FavoritesProvider(context) (nothing stored: an empty list)
\* and websitesProvider.refresh() up to its first await; activate() then
\* returns.  When the constructor throws, activate() throws.
Activate ==
    /\ phase = "inactive"
    /\ importQueue' = <<[call |-> 0, websites |-> <<>>]>>
    /\ categoryStates' = EmptyMap
    /\ savedCategoryStates' = EmptyMap
    /\ IF CacheUsed /\ ~IsSome(Get(cache).websites)
       THEN /\ phase' = "crashed"
            /\ UNCHANGED <<websites, categories, rootItems, childToParentMap,
                           searchHistory, calls, requests>>
       ELSE IF CacheUsed
       THEN /\ phase' = "activating"
            /\ websites' = Get(Get(cache).websites)
            /\ Organized(Get(Get(cache).websites))
            /\ StartRefresh
       ELSE /\ phase' = "activating"
            /\ StartRefresh
            /\ UNCHANGED <<websites, categories, rootItems, childToParentMap,
                           searchHistory>>
    /\ UNCHANGED <<now, cache, currentSearchQuery, currentCategory, fuse,
                   allWebsites, treeDataChanged, errorMessages,
                   organizeCalls, responseData, queryVars, favoritesVars>>

\* extension.ts:26-46: the initial refresh resolved; the .then branch
\* creates the two tree views, calls setTreeView (restoreCategoryStates
\* finds categoryStates empty and reveals nothing) and registers the
\* commands
InitialLoadCompleted ==
    /\ phase = "activating"
    /\ calls[1].pc = "resolved"
    /\ phase' = "ready"
    /\ UNCHANGED <<now, cache, savedCategoryStates, websites, categories,
                   rootItems, childToParentMap, categoryStates,
                   currentSearchQuery, currentCategory, calls, requests,
                   treeDataChanged, errorMessages, organizeCalls,
                   responseData, serviceVars, queryVars, favoritesVars>>

\* extension.ts:47-57: the initial refresh rejected; the .catch branch
\* shows an error message, and nothing else
InitialLoadFailed ==
    /\ phase = "activating"
    /\ calls[1].pc = "rejected"
    /\ phase' = "failed"
    /\ errorMessages' = errorMessages + 1
    /\ UNCHANGED <<now, cache, savedCategoryStates, websites, categories,
                   rootItems, childToParentMap, categoryStates,
                   currentSearchQuery, currentCategory, calls, requests,
                   treeDataChanged, organizeCalls, responseData,
                   serviceVars, queryVars, favoritesVars>>

\* the commands are registered and fewer than MaxViewCalls calls were made
CanCall == phase = "ready" /\ Len(calls) < 1 + MaxViewCalls

\* websitesProvider.ts:118-121
UpdateSearch(query) ==
    /\ CanCall
    /\ currentSearchQuery' = toLowerCase(query)
    /\ StartRefresh
    /\ UNCHANGED <<now, phase, cache, savedCategoryStates, websites,
                   categories, rootItems, childToParentMap, categoryStates,
                   currentCategory, treeDataChanged, errorMessages,
                   organizeCalls, responseData, serviceVars, queryVars,
                   favoritesVars>>

\* websitesProvider.ts:383-386
ClearSearch ==
    /\ CanCall
    /\ currentSearchQuery' = EmptyString
    /\ StartRefresh
    /\ UNCHANGED <<now, phase, cache, savedCategoryStates, websites,
                   categories, rootItems, childToParentMap, categoryStates,
                   currentCategory, treeDataChanged, errorMessages,
                   organizeCalls, responseData, serviceVars, queryVars,
                   favoritesVars>>

\* websitesProvider.ts:402-404
getCategories == [k \in 1..Len(categories) |-> categories[k].slug]

\* websitesProvider.ts:409-412; the filterByCategory command
\* (extension.ts:336-359) passes one of getCategories()
SetCurrentCategory(category) ==
    /\ CanCall
    /\ currentCategory' = Some(category)
    /\ StartRefresh
    /\ UNCHANGED <<now, phase, cache, savedCategoryStates, websites,
                   categories, rootItems, childToParentMap, categoryStates,
                   currentSearchQuery, treeDataChanged, errorMessages,
                   organizeCalls, responseData, serviceVars, queryVars,
                   favoritesVars>>

\* websitesProvider.ts:417-420
ClearCategoryFilter ==
    /\ CanCall
    /\ currentCategory' = None
    /\ StartRefresh
    /\ UNCHANGED <<now, phase, cache, savedCategoryStates, websites,
                   categories, rootItems, childToParentMap, categoryStates,
                   currentSearchQuery, treeDataChanged, errorMessages,
                   organizeCalls, responseData, serviceVars, queryVars,
                   favoritesVars>>

\* Map.set(key, value)
MapSet(states, key, value) ==
    [x \in DOMAIN states \cup {key} |-> IF x = key THEN value ELSE states[x]]

\* websitesProvider.ts:70-83 and 92-95: the tree view reports that root
\* item k was expanded (value TRUE) or collapsed (FALSE), by the user or by
\* a reveal; the handler records the state under the item's label and
\* saves the Map.  A refused write stores nothing.
ElementToggled(k, value, accepted) ==
    /\ phase = "ready"
    /\ k \in 1..Len(rootItems)
    /\ rootItems[k].kind = "category"
    /\ categoryStates' = MapSet(categoryStates, rootItems[k].label, value)
    /\ savedCategoryStates' = IF accepted THEN categoryStates'
                              ELSE savedCategoryStates
    /\ UNCHANGED <<now, phase, cache, websites, categories, rootItems,
                   childToParentMap, currentSearchQuery, currentCategory,
                   calls, requests, treeDataChanged, errorMessages,
                   organizeCalls, responseData, serviceVars, queryVars,
                   favoritesVars>>

ExpandElement(k, accepted) == ElementToggled(k, TRUE, accepted)

CollapseElement(k, accepted) == ElementToggled(k, FALSE, accepted)

NextView ==
    \/ Activate
    \/ \E r \in 1..Len(calls) : \E list \in ViewCatalogs : FetchOk(r, list)
    \/ \E r \in 1..Len(calls) : FetchFail(r)
    \/ ConstructorIndexReady
    \/ \E r \in 1..Len(calls) : UpdateCache(r)
    \/ \E r \in 1..Len(calls) : CacheUpdated(r)
    \/ InitialLoadCompleted
    \/ InitialLoadFailed
    \/ \E q \in ViewQueries : UpdateSearch(q)
    \/ ClearSearch
    \/ \E k \in 1..Len(getCategories) : SetCurrentCategory(getCategories[k])
    \/ ClearCategoryFilter
    \/ \E k \in 1..Len(rootItems) : \E accepted \in BOOLEAN :
          ExpandElement(k, accepted)
    \/ \E k \in 1..Len(rootItems) : \E accepted \in BOOLEAN :
          CollapseElement(k, accepted)

SpecView == InitView /\ [][NextView]_vars


(***************************************************************************)
(* fetchWebsites (websiteService.ts:12-32) as a function of the response   *)
(* of its axios.get.  An optional field of a raw record is None when the   *)
(* record does not have it.                                                *)
(***************************************************************************)
\* longest response
MaxRaw == 2

\* a || b on optional strings: a when it is there and not empty
OrElse(a, b) == IF Truthy(a) THEN a ELSE b

\* a mapping that prefers the alternate field names
MapSitePreferringAlternate(site) ==
    [name |-> site.name, domain |-> site.domain, category |-> site.category,
     llmsTxtUrl |->
        Get(OrElse(site.llmsUrl, OrElse(site.llmsTxtUrl, Some("")))),
     llmsFullTxtUrl |->
        Get(OrElse(site.llmsFullUrl, OrElse(site.llmsFullTxtUrl, Some(""))))]

\* websiteService.ts:18-27, the fields the model keeps
MapSite(site) ==
    [name |-> site.name, domain |-> site.domain, category |-> site.category,
     llmsTxtUrl |->
        Get(OrElse(site.llmsTxtUrl, OrElse(site.llmsUrl, Some("")))),
     llmsFullTxtUrl |->
        Get(OrElse(site.llmsFullTxtUrl, OrElse(site.llmsFullUrl, Some(""))))]

\* types: WebsiteApiResponse, for one site; each URL field may be missing,
\* and a primary field may be there but empty
RawRecords ==
    [name : {"OpenAI"}, domain : {"openai.com"}, category : {"ai-ml"},
     llmsTxtUrl : {None, Some(""), Some("https://openai.com/llms.txt")},
     llmsUrl : {None, Some("https://openai.com/llms")},
     llmsFullTxtUrl : {None, Some(""), Some("https://openai.com/llms-full.txt")},
     llmsFullUrl : {None, Some("https://openai.com/llms-full")}]

\* the request fails (None) or delivers a list of raw records
Responses == {None} \cup {Some(l) : l \in ListsUpTo(RawRecords, MaxRaw)}

InitFetch ==
    /\ now = Now0
    /\ phase = "inactive"
    /\ cache = None
    /\ savedCategoryStates = EmptyMap
    /\ websites = <<>>
    /\ categories = <<>>
    /\ rootItems = <<>>
    /\ childToParentMap = EmptyMap
    /\ categoryStates = EmptyMap
    /\ currentSearchQuery = EmptyString
    /\ currentCategory = None
    /\ calls = <<>>
    /\ requests = 0
    /\ treeDataChanged = 0
    /\ errorMessages = 0
    /\ organizeCalls = 0
    /\ responseData \in Responses
    /\ FavoritesIdle
    /\ ServiceIdle
    /\ issued = <<>>
    /\ lastCall = NoCall

\* lines 14-27: the request succeeds and the mapped list is returned (kept
\* in websites)
FetchWebsitesReturns ==
    /\ requests = 0
    /\ IsSome(responseData)
    /\ requests' = 1
    /\ websites' = [i \in 1..Len(Get(responseData)) |->
                      MapSite(Get(responseData)[i])]
    /\ lastCall' = [op |-> "fetchWebsites", threw |-> FALSE]
    /\ UNCHANGED <<now, phase, cache, savedCategoryStates, categories,
                   rootItems, childToParentMap, categoryStates,
                   currentSearchQuery, currentCategory, calls,
                   treeDataChanged, errorMessages, organizeCalls,
                   responseData, serviceVars, issued, favoritesVars>>

\* lines 28-31: the request fails and fetchWebsites throws
FetchWebsitesThrows ==
    /\ requests = 0
    /\ responseData = None
    /\ requests' = 1
    /\ lastCall' = [op |-> "fetchWebsites", threw |-> TRUE]
    /\ UNCHANGED <<now, phase, cache, savedCategoryStates, websites,
                   categories, rootItems, childToParentMap, categoryStates,
                   currentSearchQuery, currentCategory, calls,
                   treeDataChanged, errorMessages, organizeCalls,
                   responseData, serviceVars, issued, favoritesVars>>

NextFetch ==
    \/ FetchWebsitesReturns
    \/ FetchWebsitesThrows

SpecFetch == InitFetch /\ [][NextFetch]_vars



(***************************************************************************)
(* Properties.                                                             *)
(***************************************************************************)
\* the list call i fetched, and the snapshot it wrote
Fetched(i) == Get(calls[i].allWebsites)
Written(i) == Snapshot(Get(calls[i].ts), Fetched(i))

\* call i ran alone and nothing was started after it
Alone(i) == i = Len(calls) /\ ~calls[i].overlapped

\* the state is the one the constructor left: no refresh was issued yet
JustLoaded == phase # "inactive" /\ calls = <<>>

\* age of the stored snapshot at construction (the clock has not moved)
Age == now - Get(Get(cache).timestamp)

\* C1: when refreshes fail in their fetch after an earlier refresh succeeded
\* (running alone), the list in memory and the stored snapshot are still
\* those of the successful refresh, and every failed call is rejected.
C1_RefreshFailurePreservesState ==
    \A j \in 1..Len(calls) :
        ( /\ j < Len(calls)
          /\ calls[j].pc = "resolved"
          /\ ~calls[j].overlapped
          /\ \A k \in (j + 1)..Len(calls) : calls[k].err = "fetch" )
        => /\ websites = Fetched(j)
           /\ cache = Written(j)
           /\ \A k \in (j + 1)..Len(calls) : calls[k].pc = "rejected"

C1_Witness ==
    /\ Len(calls) = 2
    /\ Alone(2)
    /\ calls[2].err = "fetch"
    /\ calls[1].pc = "resolved"
    /\ ~calls[1].overlapped
    /\ websites = ListA

\* C2: when two refreshes overlap and the one started first gets its fetch
\* result last, then once both have finished the list in memory and the
\* stored snapshot are those of the refresh started last.
C2_StaleResultDoesNotOverwrite ==
    \A i, j \in 1..Len(calls) :
        ( /\ i < j
          /\ calls[i].pc = "resolved"
          /\ calls[j].pc = "resolved"
          /\ calls[i].arrived > calls[j].arrived
          /\ \A k \in 1..Len(calls) :
                k \in {i, j} \/ (Finished(calls[k]) /\ calls[k].arrived < calls[j].arrived) )
        => /\ websites = Fetched(j)
           /\ Get(Get(cache).websites) = Fetched(j)

\* C3: the stored snapshot, once a refresh has written it, is always the
\* whole list one call fetched together with the timestamp that same call
\* wrote.
C3_SnapshotNeverTorn ==
    IF \E i \in 1..Len(calls) : IsSome(calls[i].ts)
    THEN \E i \in 1..Len(calls) : IsSome(calls[i].ts) /\ cache = Written(i)
    ELSE cache \in InitialCaches

C3_Witness ==
    /\ Len(calls) = 2
    /\ calls[1].overlapped
    /\ IsSome(calls[1].ts)
    /\ IsSome(calls[2].ts)
    /\ Fetched(1) # Fetched(2)
    /\ Get(calls[1].ts) # Get(calls[2].ts)
    /\ calls[1].arrived > calls[2].arrived
    /\ cache = Written(1)

\* C4: a refresh started after the previous one completed, and succeeding,
\* leaves the list in memory, the search dataset and index, and the stored
\* snapshot all equal to what it fetched.
C4_SequentialRefreshReplaces ==
    \A i \in 2..Len(calls) :
        ( /\ Alone(i)
          /\ calls[i - 1].pc = "resolved"
          /\ calls[i].pc = "resolved" )
        => /\ websites = Fetched(i)
           /\ allWebsites = Fetched(i)
           /\ fuse = Some(Fetched(i))
           /\ cache = Written(i)

C4_Witness ==
    /\ Len(calls) = 2
    /\ Alone(2)
    /\ ~calls[1].overlapped
    /\ calls[1].pc = "resolved"
    /\ calls[2].pc = "resolved"
    /\ Fetched(1) = ListA
    /\ Fetched(2) = ListB
    /\ allWebsites = ListB

\* C5: a refresh that succeeds without another one overlapping it leaves
\* the list in memory equal to the fetched list and the stored snapshot
\* equal to {a timestamp of this session, the fetched list}, whatever
\* snapshot the session started with.
C5_SuccessfulRefreshReplacesAndPersists ==
    \A i \in 1..Len(calls) :
        (Alone(i) /\ calls[i].pc = "resolved")
        => /\ websites = Fetched(i)
           /\ WellFormed(cache)
           /\ Get(Get(cache).websites) = Fetched(i)
           /\ Get(Get(cache).timestamp) >= Now0
           /\ Get(Get(cache).timestamp) <= now

C5_Witness ==
    /\ Len(calls) = 1
    /\ calls[1].pc = "resolved"
    /\ Fetched(1) = ListB
    /\ cache = Snapshot(Now0 + 1, ListB)

\* C6: a snapshot 24h + 1ms old is ignored by the constructor (the list in
\* memory stays empty); one 24h - 1ms old is loaded.
C6_ExpiryBoundary ==
    (JustLoaded /\ WellFormed(cache))
    => /\ (Age = CACHE_DURATION + 1 => websites = <<>>)
       /\ (Age = CACHE_DURATION - 1 => websites = Get(Get(cache).websites))

C6_Witness ==
    /\ JustLoaded
    /\ WellFormed(cache)
    /\ Age = CACHE_DURATION - 1
    /\ websites = ListB

\* C7 as stated: the constructor loads a well-formed snapshot exactly when
\* its age is below 24h.
C7_ValidWhileYoungerThan24h ==
    (JustLoaded /\ WellFormed(cache))
    => (websites = Get(Get(cache).websites) <=> Age < CACHE_DURATION)

\* C7 amended: the constructor loads a well-formed snapshot exactly when its
\* age is at most 24h; a snapshot exactly 24h old is loaded.
C7_ValidUpTo24h ==
    (JustLoaded /\ WellFormed(cache))
    => (websites = Get(Get(cache).websites) <=> Age <= CACHE_DURATION)

C7_Witness ==
    /\ JustLoaded
    /\ WellFormed(cache)
    /\ Age = CACHE_DURATION
    /\ websites = ListA

\* C8: constructing the provider issues no fetch and leaves the stored
\* snapshot as it was; an unexpired snapshot becomes the list in memory, an
\* expired or absent one leaves the list empty.
C8_LoadIsLocal ==
    [][ (phase = "inactive" /\ phase' # "inactive"
            /\ (cache = None \/ WellFormed(cache)))
        => /\ requests' = requests
           /\ calls' = calls
           /\ cache' = cache
           /\ websites' = IF cache # None /\ Age <= CACHE_DURATION
                          THEN Get(Get(cache).websites)
                          ELSE <<>> ]_vars

C8_Witness ==
    /\ JustLoaded
    /\ WellFormed(cache)
    /\ Age = CACHE_DURATION + 1
    /\ websites = <<>>
    /\ requests = 0

\* C9: a stored snapshot that lacks its timestamp or its list is treated as
\* absent: construction succeeds and the list in memory is empty.
C9_MalformedSnapshotIgnored ==
    (JustLoaded /\ IsSome(cache) /\ ~WellFormed(cache))
    => (phase = "constructed" /\ websites = <<>>)

\* C10: when the snapshot write of a refresh fails, the refresh still
\* resolves, the groups are rebuilt from the list in memory and the
\* tree-changed event has fired.
C10_WriteFailureNotFatal ==
    \A i \in 1..Len(calls) :
        (Alone(i) /\ calls[i].err = "persist")
        => /\ calls[i].pc = "resolved"
           /\ rootItems = organizeWebsitesByCategory(Fetched(i)).rootItems
           /\ treeDataChanged = Cardinality({k \in 1..Len(calls) :
                                               calls[k].pc = "resolved"})

(***************************************************************************)
(* Properties of the search service.                                       *)
(***************************************************************************)
\* the latest call was search() / getSuggestions()
Searched == lastCall.op = "search"
Suggested == lastCall.op = "getSuggestions"

\* C11: search(query) with a non-empty query and getSuggestions(partial)
\* with a partial of two or more characters do not crash, whether or not the
\* first index build has completed: no call ends in a thrown error.
C11_NoCrashBeforeIndexReady == ~lastCall.threw

\* the latest call returned
Returned == (Searched \/ Suggested) /\ ~lastCall.threw

\* the list of the latest dataset update completed when the call was made
\* (none yet: no entries)
LastUpdate == IF IsSome(lastCall.index) THEN Get(lastCall.index) ELSE <<>>

\* the elements of a list
Range(list) == {list[i] : i \in 1..Len(list)}

\* the k-th smallest member of a set of positions
Kth(positions, k) ==
    CHOOSE i \in positions : Cardinality({j \in positions : j < i}) = k - 1

\* list holds exactly the elements of from at the given positions, in order
PickedFrom(list, from, positions) ==
    /\ Len(list) = Cardinality(positions)
    /\ \A k \in 1..Len(list) : list[k] = from[Kth(positions, k)]

\* C17: search with an empty query and no category returns the full entry
\* list of the last completed dataset update, unfiltered, in insertion order.
C17_EmptySearchReturnsDataset ==
    (Searched /\ Returned /\ lastCall.query = EmptyString
       /\ lastCall.category = None)
    => lastCall.entries = LastUpdate

C17_Witness ==
    /\ Searched
    /\ lastCall.query = EmptyString
    /\ lastCall.category = None
    /\ lastCall.entries = ListC
    /\ lastCall.index = Some(ListC)

\* C18: when a category is supplied to search, every returned entry has that
\* normalized category, and with an empty query the result is exactly the
\* dataset entries of that normalized category, in dataset order.
C18_CategoryFilterExact ==
    (Searched /\ Returned /\ Truthy(lastCall.category))
    => LET c == Get(lastCall.category)
           found == lastCall.entries
           dataset == lastCall.dataset
       IN /\ \A i \in 1..Len(found) : NormalizedCategory(found[i]) = c
          /\ lastCall.query = EmptyString
               => PickedFrom(found, dataset,
                     {i \in 1..Len(dataset) :
                         NormalizedCategory(dataset[i]) = c})

C18_Witness ==
    /\ Searched
    /\ lastCall.query = EmptyString
    /\ lastCall.category = Some("uncategorized")
    /\ lastCall.entries = <<W3, W8>>

\* the names of the best five fuzzy matches of the latest call, best first
HitNames ==
    LET hits == Limit(FuseSearch(Get(lastCall.index),
                                 FuseRanking(lastCall.query), 1), 5)
    IN [i \in 1..Len(hits) |-> Chars(hits[i].name)]

\* the positions of the history entries the latest call may suggest
Eligible ==
    {i \in 1..Len(searchHistory) :
        /\ lastCall.category = None
             \/ searchHistory[i].category = lastCall.category
        /\ includes(toLowerCase(searchHistory[i].query),
                    toLowerCase(lastCall.query))}

\* the first position of s in a list, among the given positions
First(list, positions, s) ==
    CHOOSE i \in positions :
        list[i] = s /\ \A j \in positions : list[j] = s => i <= j

\* C20: getSuggestions with a partial of two or more characters returns at
\* most five fuzzy name matches, in rank order, followed by the history
\* queries that contain the partial case-insensitively and are not among
\* them, in history order; no string appears twice.
C20_SuggestionsFuzzyThenHistory ==
    (Suggested /\ Returned /\ Len(lastCall.query) >= 2)
    => LET res == lastCall.suggestions
           names == HitNames
           queries == [i \in 1..Len(searchHistory) |-> searchHistory[i].query]
           eligible == Eligible
       IN /\ \A i, j \in 1..Len(res) : i # j => res[i] # res[j]
          /\ \A i \in eligible : queries[i] \in Range(res)
          /\ lastCall.category = None => Range(names) \subseteq Range(res)
          /\ \E k \in 0..Len(res) :
               /\ k <= 5
               /\ \A i \in 1..k : res[i] \in Range(names)
               /\ \A i, j \in 1..k :
                     i < j => First(names, DOMAIN names, res[i])
                                < First(names, DOMAIN names, res[j])
               /\ \A i \in (k + 1)..Len(res) :
                     \E h \in eligible : queries[h] = res[i]
               /\ \A i, j \in (k + 1)..Len(res) :
                     i < j => First(queries, eligible, res[i])
                                < First(queries, eligible, res[j])

C20_Witness ==
    /\ Suggested
    /\ lastCall.query = <<"o", "p">>
    /\ lastCall.category = None
    /\ lastCall.suggestions = <<Chars("Open"), Chars("Opera"), Chars("OpenAI"),
                                Chars("OpenCV"), <<"o", "p">>>>
    /\ Len(searchHistory) = 2

(***************************************************************************)
(* Properties of the search history.                                       *)
(***************************************************************************)
\* the (trimmed query, category) pair of a search issued / of a history entry
PairIssued(i) == Query(Trim(issued[i].query), issued[i].category)
PairKept(k) == Query(searchHistory[k].query, searchHistory[k].category)

\* the distinct non-empty pairs issued up to search i, latest first, up to
\* ten of them: collected from search i backwards onto found
RECURSIVE RecentPairs(_, _)
RecentPairs(i, found) ==
    IF i = 0 \/ Len(found) = 10 THEN found
    ELSE RecentPairs(i - 1,
            IF \/ PairIssued(i).query = EmptyString
               \/ \E k \in 1..Len(found) : found[k] = PairIssued(i)
            THEN found ELSE Append(found, PairIssued(i)))

\* C15: the history holds at most 10 entries, most recent first, and they
\* are exactly the 10 most recently issued distinct non-empty
\* (query, category) pairs (all of them while there are fewer than 10).
C15_HistoryIsTenMostRecent ==
    /\ Len(searchHistory) <= 10
    /\ [k \in 1..Len(searchHistory) |-> PairKept(k)]
         = RecentPairs(Len(issued), <<>>)

C15_Witness ==
    /\ \A k \in 1..11 : \E i \in 1..Len(issued) : issued[i] = Query(Fresh(k), None)
    /\ Len(searchHistory) = 10
    /\ PairKept(1) = Query(Fresh(11), None)
    /\ PairKept(10) = Query(Fresh(2), None)

\* this step issues a search for a pair the history already holds
Reissued ==
    /\ issued' # issued
    /\ \E k \in 1..Len(searchHistory) : PairKept(k) = Query(
          Trim(issued'[Len(issued')].query), issued'[Len(issued')].category)

\* C16: a search whose trimmed query and category are already in the history
\* moves that entry to the front, the other entries keep their order and the
\* length does not change; no two entries ever share a (query, category)
\* pair, and every stored query is trimmed and non-empty.
C16_ReissueMovesToFront ==
    /\ [][Reissued =>
            LET n == Len(issued')
                pair == Query(Trim(issued'[n].query), issued'[n].category)
                at == CHOOSE k \in 1..Len(searchHistory) : PairKept(k) = pair
                rest == [k \in 1..(Len(searchHistory) - 1) |->
                            IF k < at THEN searchHistory[k]
                            ELSE searchHistory[k + 1]]
            IN /\ Len(searchHistory') = Len(searchHistory)
               /\ searchHistory'[1].query = pair.query
               /\ searchHistory'[1].category = pair.category
               /\ Tail(searchHistory') = rest]_vars
    /\ [](/\ \A i, j \in 1..Len(searchHistory) :
                i # j => PairKept(i) # PairKept(j)
          /\ \A k \in 1..Len(searchHistory) :
                /\ searchHistory[k].query # EmptyString
                /\ Trim(searchHistory[k].query) = searchHistory[k].query)

C16_Witness ==
    /\ Len(issued) >= 3
    /\ \E i \in 1..(Len(issued) - 2) :
          /\ PairIssued(i) = PairIssued(Len(issued))
          /\ issued[i] # issued[Len(issued)]
    /\ Len(searchHistory) = Len(issued) - 1
    /\ PairKept(1) = PairIssued(Len(issued))

\* C19: getSuggestions with a partial of fewer than 2 characters returns the
\* queries of the history entries, most recent first, at most 10 of them;
\* with a category supplied, those of the entries recorded with it.
C19_ShortPartialReturnsHistory ==
    (Suggested /\ Len(lastCall.query) < 2)
    => /\ ~lastCall.threw
       /\ Len(lastCall.suggestions) <= 10
       /\ PickedFrom(lastCall.suggestions,
                     [k \in 1..Len(searchHistory) |-> searchHistory[k].query],
                     {k \in 1..Len(searchHistory) :
                         \/ lastCall.category = None
                         \/ searchHistory[k].category = lastCall.category})

C19_Witness ==
    /\ Suggested
    /\ lastCall.query = <<"q">>
    /\ lastCall.category = Some("ai-ml")
    /\ lastCall.suggestions = <<Fresh(1)>>
    /\ Len(searchHistory) = 3

(***************************************************************************)
(* Properties of the favorites.                                            *)
(***************************************************************************)
\* some favorite of the list has the domain
HasDomain(list, domain) == \E i \in 1..Len(list) : list[i].domain = domain

\* this step starts an addFavorite / removeFavorite call
Started(op) ==
    /\ Len(favoriteCalls') = Len(favoriteCalls) + 1
    /\ favoriteCalls'[Len(favoriteCalls')].op = op

\* the entry the call started by this step is about
Subject == favoriteCalls'[Len(favoriteCalls')].website

\* every call made so far has run to its end
AllSettled ==
    \A i \in 1..Len(favoriteCalls) :
        favoriteCalls[i].pc \in {"resolved", "rejected"}

\* C12: favorites are idempotent.  An add leaves a favorite of the entry's
\* domain in the list; an add of a domain that is already there (so the second
\* of add(E); add(E)) and a remove of a domain that is not there change
\* neither the list in memory nor the persisted list.
C12_FavoritesIdempotent ==
    [][/\ Started("add") => HasDomain(favorites', Subject.domain)
       /\ (Started("add") /\ HasDomain(favorites, Subject.domain))
            => favorites' = favorites /\ savedFavorites' = savedFavorites
       /\ (Started("add") /\ favoriteCalls # <<>>
             /\ favoriteCalls[Len(favoriteCalls)].op = "add"
             /\ favoriteCalls[Len(favoriteCalls)].website = Subject)
            => favorites' = favorites
       /\ (Started("remove") /\ ~HasDomain(favorites, Subject.domain))
            => favorites' = favorites /\ savedFavorites' = savedFavorites]_vars

C12_Witness ==
    /\ Len(favoriteCalls) = 2
    /\ favoriteCalls[1].op = "add" /\ favoriteCalls[2].op = "add"
    /\ favoriteCalls[1].website = W9 /\ favoriteCalls[2].website = W9
    /\ favoriteCalls[1].changed /\ ~favoriteCalls[2].changed
    /\ favorites = <<W9>>

\* C13: the change notification fires exactly once for each add or remove
\* that changed the favorite list, and never for one that did not: a call
\* that has run to its end has fired once if it changed the list, else not
\* at all.
C13_NotifiesOncePerChange ==
    \A i \in 1..Len(favoriteCalls) :
        favoriteCalls[i].pc \in {"resolved", "rejected"}
            => favoriteCalls[i].fired = IF favoriteCalls[i].changed THEN 1 ELSE 0

\* C14: once every add and remove call has run to its end, overlapping or
\* not, the persisted favorite list equals the list in memory.
C14_PersistedEqualsMemory == AllSettled => savedFavorites = favorites


(***************************************************************************)
(* Organizer properties (SpecOrganize).                                    *)
(***************************************************************************)
\* the entry sequence the organizer shows: websitesToShow of line 195
Shown ==
    IF currentSearchQuery # EmptyString
    THEN search(fuse, allWebsites, searchHistory, currentSearchQuery,
                currentCategory, now).results
    ELSE websites

\* how often entry w occurs in list
Count(list, w) == Cardinality({i \in 1..Len(list) : list[i] = w})

\* how often entry w occurs in the groups k.. of the Map
RECURSIVE CountInGroups(_, _, _)
CountInGroups(cats, w, k) ==
    IF k > Len(cats) THEN 0
    ELSE Count(cats[k].websites, w) + CountInGroups(cats, w, k + 1)

\* C21: once the organizer has run on the shown sequence S, the groups
\* together hold every entry of S exactly as often as S does (none lost,
\* none duplicated, none foreign), every entry sits in the group of its
\* normalized category, and the group slugs are, without repetition,
\* exactly the normalized categories occurring in S; each root item carries
\* the entry list of its group.
C21_GroupsPartitionShown ==
    organizeCalls > 0 =>
      /\ \A w \in Range(Shown) \cup UNION {Range(categories[k].websites) :
                                             k \in 1..Len(categories)} :
            CountInGroups(categories, w, 1) = Count(Shown, w)
      /\ \A k \in 1..Len(categories) :
            \A j \in 1..Len(categories[k].websites) :
              NormalizedCategory(categories[k].websites[j]) = categories[k].slug
      /\ {categories[k].slug : k \in 1..Len(categories)}
            = {NormalizedCategory(w) : w \in Range(Shown)}
      /\ \A k, l \in 1..Len(categories) :
            categories[k].slug = categories[l].slug => k = l
      /\ Shown # <<>> =>
            /\ Len(rootItems) = Len(categories)
            /\ \A k \in 1..Len(categories) :
                  rootItems[k].websites = categories[k].websites

\* three entries in two groups, one of them made by an empty category
C21_Witness ==
    /\ organizeCalls > 0
    /\ Shown = <<W6, W8, W1>>
    /\ Len(categories) = 2
    /\ categories[1].websites = <<W6, W1>>
    /\ categories[2].slug = "uncategorized"

\* C22: organizing an empty shown sequence yields exactly one root item,
\* the no-results item without entries; organizing a non-empty one yields
\* category items only.
C22_NoResultsIffEmpty ==
    organizeCalls > 0 =>
      /\ Shown = <<>> => rootItems = <<NoResultsItem>>
      /\ Shown # <<>> =>
            /\ rootItems # <<>>
            /\ \A k \in 1..Len(rootItems) : rootItems[k].kind = "category"

\* a query that matches none of the entries held leaves the placeholder
C22_Witness ==
    /\ organizeCalls > 0
    /\ websites # <<>>
    /\ Shown = <<>>
    /\ rootItems = <<NoResultsItem>>

\* the normalized categories of list in the order of their first entry
RECURSIVE FirstSlugs(_, _, _)
FirstSlugs(list, i, seen) ==
    IF i > Len(list) THEN seen
    ELSE LET slug == NormalizedCategory(list[i])
         IN FirstSlugs(list, i + 1,
                       IF \E k \in 1..Len(seen) : seen[k] = slug
                       THEN seen ELSE Append(seen, slug))

\* the root items are the groups in first-encounter order, each with its
\* entries in the order the shown sequence has them
InFirstEncounterOrder ==
    (organizeCalls > 0 /\ Shown # <<>>) =>
      LET slugs == FirstSlugs(Shown, 1, <<>>) IN
      /\ Len(rootItems) = Len(slugs)
      /\ \A k \in 1..Len(slugs) :
            /\ rootItems[k].label = categoryConfig(slugs[k]).displayName
            /\ categories[k].slug = slugs[k]
            /\ rootItems[k].websites
                 = SelectSeq(Shown, LAMBDA w : NormalizedCategory(w) = slugs[k])

\* a further call on the same fields rebuilds the same groups
RepeatedOrganize ==
    (organizeCalls > 0 /\ organizeCalls' = organizeCalls + 1) =>
      /\ rootItems' = rootItems
      /\ categories' = categories
      /\ childToParentMap' = childToParentMap

\* C23: the groups come in the order in which their categories are first
\* met scanning the shown entries, the entries of a group keep their
\* relative order, and calling the organizer again on the same inputs
\* yields the same groups in the same order.
C23_GroupOrderIsFirstEncounter ==
    []InFirstEncounterOrder /\ [][RepeatedOrganize]_vars

\* two calls made; the second category met has an entry before and after
\* the first category's entry
C23_Witness ==
    /\ organizeCalls = 2
    /\ Len(rootItems) = 2
    /\ Len(rootItems[1].websites) = 2
    /\ Shown[1] = rootItems[1].websites[1]
    /\ Shown[2] = rootItems[2].websites[1]
    /\ Shown[3] = rootItems[1].websites[2]


(***************************************************************************)
(* Session properties (SpecView).                                          *)
(***************************************************************************)
\* the tree views exist: created by the .then branch of the initial refresh
ViewsCreated == phase = "ready"

\* no refresh is in flight and the handlers of the initial one have run
Settled ==
    /\ phase \in {"ready", "failed"}
    /\ \A i \in 1..Len(calls) : Finished(calls[i])

\* the groups shown: label and entries of every root item
Groups(items) ==
    [k \in 1..Len(items) |->
        [label |-> items[k].label, websites |-> items[k].websites]]

\* the groups of the whole list in memory
AllGroups == Groups(RootItemsOf(GroupInto(<<>>, websites, 1), categoryStates))

\* a refresh rebuilds the groups in this step
Rebuilt == treeDataChanged' = treeDataChanged + 1

\* C24: a rebuild gives every category group the expand/collapse state
\* last recorded for it by the tree view's expand and collapse events,
\* collapsed when none was recorded: a group the user expanded (and did
\* not collapse again) comes out of the next rebuild expanded, for a
\* taxonomy category as for an unknown slug.
C24_RebuildKeepsExpandedGroups ==
    [][Rebuilt =>
         \A k \in 1..Len(rootItems') :
            rootItems'[k].kind = "category" =>
              rootItems'[k].isExpanded
                = StateOf(categoryStates, rootItems'[k].label)]_vars

\* C25: the expand/collapse states saved by an earlier session are the
\* states the provider holds, and the organizer uses, once it has been
\* constructed in this session.
C25_SavedStatesSurviveConstruction ==
    [][(phase = "inactive" /\ phase' = "activating")
         => categoryStates' = savedCategoryStates]_vars

\* C26: once a category filter c is set and the refreshes have completed,
\* every entry shown has normalized category c, with or without an active
\* search query; once the filter is cleared and no query is active, the
\* groups are those of the whole list.
C26_CategoryFilterRestrictsView ==
    (Settled /\ ViewsCreated /\ calls[Len(calls)].pc = "resolved") =>
      /\ IsSome(currentCategory) =>
            \A k \in 1..Len(rootItems) :
              \A j \in 1..Len(rootItems[k].websites) :
                NormalizedCategory(rootItems[k].websites[j])
                  = Get(currentCategory)
      /\ (currentCategory = None /\ currentSearchQuery = EmptyString) =>
            Groups(rootItems) = AllGroups

\* C27: once the refreshes started by updateSearch, clearSearch,
\* setCurrentCategory and clearCategoryFilter have settled, the root items
\* are the organization of the list in memory under the current query and
\* category, also when a fetch started by such a change failed.
C27_GroupsRebuiltOnEveryChange ==
    (Settled /\ ViewsCreated /\ Len(calls) > 1) =>
      Groups(rootItems)
        = Groups(organizeWebsitesByCategory(websites).rootItems)

\* C28: when the initial refresh has failed, an error message was shown,
\* and if a fresh snapshot had been loaded the tree views are created and
\* show its entries.
C28_FailedLoadShowsCachedEntries ==
    (phase # "activating" /\ calls # <<>> /\ calls[1].pc = "rejected") =>
      /\ errorMessages >= 1
      /\ websites # <<>> =>
            /\ ViewsCreated
            /\ Groups(rootItems) = AllGroups

\* C29: activate() never throws, and a failed initial refresh ends in an
\* error message shown by the .catch branch.
C29_ActivationCompletes ==
    /\ phase # "crashed"
    /\ (calls # <<>> /\ calls[1].pc = "rejected" /\ phase # "activating") =>
          (phase = "failed" /\ errorMessages >= 1)


(***************************************************************************)
(* Field mapping properties (SpecFetch).                                   *)
(***************************************************************************)
\* a field that is there and not empty
Set(field) == Truthy(field)

\* the mapped URL is the primary field when set, else the alternate when
\* the primary is absent, and empty when neither field is there
Reconciled(url, primary, alternate) ==
    /\ (Set(alternate) /\ primary = None) => url = Get(alternate)
    /\ (Set(alternate) /\ Set(primary)) => url = Get(primary)
    /\ (alternate = None /\ primary = None) => url = ""

\* C30: when the request delivers records, fetchWebsites returns (does not
\* throw) one entry per record, whose primary doc URL is llmsUrl when
\* llmsTxtUrl is absent, llmsTxtUrl when both are set, and empty when both
\* are absent; likewise the full-text URL from llmsFullTxtUrl and
\* llmsFullUrl.
C30_UrlFallback ==
    (requests = 1 /\ IsSome(responseData)) =>
      LET raw == Get(responseData) IN
      /\ ~lastCall.threw
      /\ Len(websites) = Len(raw)
      /\ \A i \in 1..Len(raw) :
            /\ Reconciled(websites[i].llmsTxtUrl, raw[i].llmsTxtUrl,
                          raw[i].llmsUrl)
            /\ Reconciled(websites[i].llmsFullTxtUrl, raw[i].llmsFullTxtUrl,
                          raw[i].llmsFullUrl)

\* a record with both names of the primary URL and only the alternate name
\* of the full-text URL, followed by a record with no URL at all
C30_Witness ==
    /\ requests = 1
    /\ IsSome(responseData)
    /\ Len(websites) = 2
    /\ Get(responseData)[1].llmsTxtUrl = Some("https://openai.com/llms.txt")
    /\ Get(responseData)[1].llmsUrl = Some("https://openai.com/llms")
    /\ Get(responseData)[1].llmsFullTxtUrl = None
    /\ websites[1].llmsTxtUrl = "https://openai.com/llms.txt"
    /\ websites[1].llmsFullTxtUrl = "https://openai.com/llms-full"
    /\ websites[2].llmsTxtUrl = ""
    /\ websites[2].llmsFullTxtUrl = ""


(***************************************************************************)
(* Agreement of the three copies of the entry list (Spec).                 *)
(***************************************************************************)
\* the provider is constructed, every refresh issued has resolved and no
\* initializeFuse waits for its import
Quiet ==
    /\ phase = "constructed"
    /\ importQueue = <<>>
    /\ \A i \in 1..Len(calls) : calls[i].pc = "resolved"

\* a snapshot was loaded by the constructor or written by a refresh
SnapshotInUse == IF calls = <<>> THEN CacheUsed ELSE TRUE

\* what the constructor found stored was nothing or a whole snapshot
StoredWhole == cache = None \/ WellFormed(cache)

\* C32: whenever no refresh and no dataset update is in flight, after
\* construction and any interleaving of successful refreshes, the list in
\* memory is the dataset of the search service and, if a snapshot was
\* loaded or written, the list of the persisted snapshot.
C32_ListCopiesAgree ==
    (Quiet /\ (calls = <<>> => StoredWhole)) =>
      /\ allWebsites = websites
      /\ SnapshotInUse =>
            (IsSome(cache) /\ Get(cache).websites = Some(websites))


(***************************************************************************)
(* Further favorites properties (SpecFavorites).                           *)
(***************************************************************************)
\* C33: whatever addFavorite and removeFavorite calls overlap, no two
\* entries of the favorite list in memory have the same domain (the list
\* loaded at construction has none).
C33_FavoriteDomainsDistinct ==
    \A i, j \in 1..Len(favorites) :
       favorites[i].domain = favorites[j].domain => i = j

\* an entry with the domain of a favorite is added under another name
\* while the save of that favorite is still awaited
C33_Witness ==
    /\ Len(favoriteCalls) = 2
    /\ favoriteCalls[1].op = "add" /\ favoriteCalls[1].website = W1
    /\ favoriteCalls[1].pc = "saving"
    /\ favoriteCalls[2].op = "add" /\ favoriteCalls[2].website = W9
    /\ ~favoriteCalls[2].changed
    /\ favorites = <<W1>>


\* calls whose change event has fired
Notified == {i \in 1..Len(favoriteCalls) : favoriteCalls[i].fired = 1}

\* C34: a change event is fired only by a call that changed the list and
\* whose save has completed; while the save is awaited, and after it has
\* failed, the call has changed the list in memory and fired nothing.
C34_NotificationFollowsSave ==
    /\ favoritesChanged = Cardinality(Notified)
    /\ \A i \in 1..Len(favoriteCalls) :
          /\ favoriteCalls[i].fired = 1 =>
                (favoriteCalls[i].pc = "resolved" /\ favoriteCalls[i].changed)
          /\ favoriteCalls[i].pc \in {"saving", "saveFailing", "rejected"} =>
                (favoriteCalls[i].changed /\ favoriteCalls[i].fired = 0)

\* an addFavorite whose save failed: the entry is in the list, nothing is
\* stored and no event fired
C34_Witness ==
    /\ Len(favoriteCalls) = 1
    /\ favoriteCalls[1].op = "add"
    /\ favoriteCalls[1].website = W2
    /\ favoriteCalls[1].pc = "rejected"
    /\ favorites = <<W2>>
    /\ savedFavorites = <<>>
    /\ favoritesChanged = 0


(***************************************************************************)
(* Order of the steps of one refresh (Spec).                               *)
(***************************************************************************)
\* the steps a call can take: fetch, list replaced (indexing), dataset
\* rebuilt and snapshot handed to the storage (persisting), groups rebuilt
\* and event fired (resolved); or a failure on the way
StepOrder ==
    {<<"fetching", "indexing">>, <<"fetching", "rejected">>,
     <<"indexing", "persisting">>, <<"indexing", "persistFailing">>,
     <<"persisting", "resolved">>, <<"persistFailing", "rejected">>}

\* what a call has behind it at each position
CallsInOrder ==
    \A r \in 1..Len(calls) :
       /\ calls[r].pc = "fetching" =>
             (calls[r].allWebsites = None /\ calls[r].ts = None)
       /\ calls[r].pc \in {"indexing", "persistFailing"} =>
             (IsSome(calls[r].allWebsites) /\ calls[r].ts = None)
       /\ calls[r].pc \in {"persisting", "resolved"} =>
             (IsSome(calls[r].allWebsites) /\ IsSome(calls[r].ts))

\* every step of a call follows the order
StepsInOrder ==
    \A r \in 1..Len(calls) :
       calls'[r].pc # calls[r].pc =>
          <<calls[r].pc, calls'[r].pc>> \in StepOrder

\* the event fires in the step in which a call whose snapshot write was
\* awaited resolves, with the root items rebuilt from the list in memory
NotifiedLast ==
    Rebuilt =>
      \E r \in 1..Len(calls) :
         /\ calls[r].pc = "persisting"
         /\ calls'[r].pc = "resolved"
         /\ IsSome(calls[r].ts)
         /\ rootItems' = organizeWebsitesByCategory(websites).rootItems

\* C35: a refresh goes through fetch, replacement of the list in memory,
\* rebuild of the search dataset, snapshot write, rebuild of the groups and
\* tree-changed event in this order: the event of a refresh never fires
\* before its snapshot write has completed and the root items are rebuilt.
C35_RefreshStepsInOrder ==
    []CallsInOrder /\ [][StepsInOrder /\ NotifiedLast]_vars /\
    [](treeDataChanged
         = Cardinality({r \in 1..Len(calls) : calls[r].pc = "resolved"}))

\* two overlapping refreshes, one resolved and one still fetching
C35_Witness ==
    /\ Len(calls) = 2
    /\ calls[1].pc = "resolved"
    /\ calls[1].overlapped
    /\ calls[2].pc = "fetching"
    /\ treeDataChanged = 1
    /\ websites = ListB
    /\ Len(rootItems) = 3


(***************************************************************************)
(* Further search service properties (SpecService, SpecHistory).           *)
(***************************************************************************)
\* the step is, or repeats, a call that must not touch the history: a
\* getSuggestions call, or a search whose query is empty or blank
ReadOnlyCall ==
    \/ lastCall'.op = "getSuggestions"
    \/ (lastCall'.op = "search" /\ Trim(lastCall'.query) = EmptyString)

\* C36: a search with an empty or blank query leaves the search history as
\* it was, and so does every getSuggestions call, whatever the partial
\* and the category.
C36_HistoryUntouched ==
    [][ReadOnlyCall => searchHistory' = searchHistory]_vars

\* a blank search under a category, made when the history holds an entry
C36_Witness ==
    /\ Len(searchHistory) = 1
    /\ searchHistory[1].query = <<"o", "p">>
    /\ lastCall.op = "search"
    /\ lastCall.query = <<" ">>
    /\ lastCall.category = Some("uncategorized")


\* no element occurs twice in list
NoRepeats(list) ==
    \A i, j \in 1..Len(list) : list[i] = list[j] => i = j

\* C37: a list returned by getSuggestions holds no string twice, for a
\* partial shorter than 2 characters as for a longer one, with or without
\* a category, whatever searches were issued before.
C37_SuggestionsDistinct ==
    (lastCall.op = "getSuggestions" /\ ~lastCall.threw) =>
       NoRepeats(lastCall.suggestions)


\* the best five fuzzy matches of the latest call whose own normalized
\* category is the category asked for, best first
HitsOfCategory ==
    SelectSeq(Limit(FuseSearch(Get(lastCall.index),
                               FuseRanking(lastCall.query), 1), 5),
              LAMBDA w : NormalizedCategory(w) = Get(lastCall.category))

\* the history queries the latest call may suggest, in history order
EligibleQueries ==
    LET kept == SelectSeq(searchHistory, LAMBDA e :
                   /\ e.category = lastCall.category
                   /\ includes(toLowerCase(e.query),
                               toLowerCase(lastCall.query)))
    IN [i \in 1..Len(kept) |-> kept[i].query]

\* C38: getSuggestions with a category and a partial of two or more
\* characters returns, before the matching history queries, exactly the
\* names of those of the best five fuzzy matches whose own normalized
\* category is the category supplied, also when entries share a name.
C38_FuzzyNamesOfCategory ==
    (Suggested /\ Returned /\ Len(lastCall.query) >= 2
       /\ Truthy(lastCall.category))
    => LET own == HitsOfCategory
           names == [i \in 1..Len(own) |-> Chars(own[i].name)]
       IN lastCall.suggestions = Unique(names \o EligibleQueries)


(***************************************************************************)
(* The parent lookup (SpecOrganize).                                       *)
(***************************************************************************)
\* websitesProvider.ts:327-335: getParent of the item of a website with
\* this domain; None for the undefined of a missing key
getParent(domain) ==
    IF domain \in DOMAIN childToParentMap
    THEN Some(childToParentMap[domain]) ELSE None

\* the domains of the entries held and shown
KnownDomains == {w.domain : w \in OrganizePool}
ShownDomains == {w.domain : w \in Range(Shown)}

\* C39: after a rebuild of the groups getParent returns a category item
\* for a website exactly if its domain is the domain of a displayed entry,
\* and that item is one of the root items displayed and lists an entry of
\* that domain; after a rebuild that yields the no-results item no website
\* has a parent.
C39_ParentLookupMatchesDisplay ==
    organizeCalls > 0 =>
      /\ DOMAIN childToParentMap = ShownDomains
      /\ \A d \in KnownDomains :
            /\ IsSome(getParent(d)) <=> d \in ShownDomains
            /\ IsSome(getParent(d)) =>
                  /\ Get(getParent(d)).kind = "category"
                  /\ Get(getParent(d)) \in Range(rootItems)
                  /\ HasDomain(Get(getParent(d)).websites, d)
      /\ rootItems = <<NoResultsItem>> =>
            \A d \in KnownDomains : getParent(d) = None

\* a query hides one of the three entries held: the hidden one has no
\* parent, the shown one has the second-category group as its parent
C39_Witness ==
    /\ organizeCalls > 0
    /\ websites = <<W10, W8, W1>>
    /\ currentSearchQuery = <<"o", "p">>
    /\ getParent("rover.bot") = None
    /\ IsSome(getParent("openai.com"))
    /\ Get(getParent("openai.com")) = rootItems[2]

====
